---- MODULE Spec2Model ----
(***************************************************************************)
(* The smart-search endpoint of src/pages/api/smart-search.ts: the request *)
(* handler, the embedding client, the candidate retriever with its cascade *)
(* of data-store strategies, and the scoring engine.                       *)
(*                                                                         *)
(* Conventions.                                                            *)
(*  - A JS string is a sequence of one-character strings.                  *)
(*  - A JS number is held in thousandths (1.0 is 1000) inside a tagged     *)
(*    record [k, v]: k = "num" (v the value), "null" (null or undefined),  *)
(*    "nan", or "inf" (v = 1 or -1, the sign).                             *)
(*  - A nullable string is [k, s] with k = "str" or "null".                *)
(*  - A stored embedding is [k, v]: "arr" (an array of numbers), "str" (a  *)
(*    JSON string that parses to the array v), "bad" (anything else that   *)
(*    is not null) or "null".                                              *)
(***************************************************************************)
EXTENDS Integers, Sequences, FiniteSets, TLC

VARIABLES
    openaiKey,       \* process.env.OPENAI_API_KEY is set
    supabaseCreds,   \* process.env.SUPABASE_URL and SUPABASE_SERVICE_ROLE_KEY are set
    cachedSupabase,  \* the module-level client handle: FALSE is null
    pc,              \* where the handler of the current request is suspended
    req,             \* the request: method, body.query, query.limit
    trimmedQuery,    \* handler local
    limit,           \* handler local, in thousandths
    properNouns,     \* handler local
    embedding,       \* handler local: the query embedding or null
    candidateMap,    \* querySupabase local: candidates in insertion order
    rpcData,         \* querySupabase local: the hybrid RPC's reply
    vectorResponse,  \* querySupabase local: the vector RPC's reply
    textDataResponse, \* querySupabase local: the text or pattern search's reply
    rawCandidates,   \* handler local: what querySupabase returned
    res,             \* the response sent, status 0 while none is
    calls,           \* history: the outbound calls of the request, in order
    stages,          \* history: the pipeline stages the request has entered
    created,         \* history: how many times createClient has been called
    store,           \* two requests in flight: what each call is answered, fixed
    inflight,        \* two requests in flight: the locals of each request
    page             \* the search page: its React state, the URL and its requests

vars == <<openaiKey, supabaseCreds, cachedSupabase, pc, req, trimmedQuery, limit,
          properNouns, embedding, candidateMap, rpcData, vectorResponse,
          textDataResponse, rawCandidates, res, calls, stages, created, store,
          inflight, page>>

----------------------------------------------------------------------------
(* Numbers *)

Milli(n) == n * 1000
Num(v) == [k |-> "num", v |-> v]
NullNum == [k |-> "null", v |-> 0]
NaN == [k |-> "nan", v |-> 0]
PosInf == [k |-> "inf", v |-> 1]
NegInf == [k |-> "inf", v |-> -1]

Max(a, b) == IF a >= b THEN a ELSE b
Min(a, b) == IF a <= b THEN a ELSE b

IsNullish(x) == x.k = "null"

\* a ?? b
Coalesce(a, b) == IF IsNullish(a) THEN b ELSE a

----------------------------------------------------------------------------
(* Text *)

UpperCase == <<"A","B","C","D","E","F","G","H","I","J","K","L","M",
               "N","O","P","Q","R","S","T","U","V","W","X","Y","Z">>
LowerCase == <<"a","b","c","d","e","f","g","h","i","j","k","l","m",
               "n","o","p","q","r","s","t","u","v","w","x","y","z">>
Digits == {"0","1","2","3","4","5","6","7","8","9"}

UpperSet == {UpperCase[i] : i \in DOMAIN UpperCase}
LowerSet == {LowerCase[i] : i \in DOMAIN LowerCase}
LowerMap == [c \in UpperSet |-> LowerCase[CHOOSE i \in DOMAIN UpperCase : UpperCase[i] = c]]

IsUpper(c) == c \in UpperSet
IsLower(c) == c \in LowerSet
IsSpace(c) == c = " "
\* \w
IsWordChar(c) == IsUpper(c) \/ IsLower(c) \/ c \in Digits \/ c = "_"

LowerOf(c) == IF IsUpper(c) THEN LowerMap[c] ELSE c

toLowerCase(s) == [i \in 1..Len(s) |-> LowerOf(s[i])]

Str(s) == [k |-> "str", s |-> s]
NullStr == [k |-> "null", s |-> <<>>]

\* !text: null, undefined and the empty string are falsy
Falsy(t) == t.k = "null" \/ t.s = <<>>

RECURSIVE trimStart(_)
trimStart(s) == IF s # <<>> /\ IsSpace(Head(s)) THEN trimStart(Tail(s)) ELSE s

RECURSIVE trimEnd(_)
trimEnd(s) ==
    IF s # <<>> /\ IsSpace(s[Len(s)]) THEN trimEnd(SubSeq(s, 1, Len(s) - 1)) ELSE s

trim(s) == trimEnd(trimStart(s))

\* hay.includes(needle)
includes(hay, needle) ==
    \E i \in 0..(Len(hay) - Len(needle)) : SubSeq(hay, i + 1, i + Len(needle)) = needle

RECURSIVE Join(_, _)
Join(parts, sep) ==
    IF parts = <<>> THEN <<>>
    ELSE IF Len(parts) = 1 THEN parts[1]
    ELSE parts[1] \o sep \o Join(Tail(parts), sep)

\* Array.from(new Set(xs)): the first occurrence of each element, in order
RECURSIVE Distinct(_)
Distinct(xs) ==
    IF xs = <<>> THEN <<>>
    ELSE LET front == Distinct(SubSeq(xs, 1, Len(xs) - 1))
             last == xs[Len(xs)]
         IN IF \E i \in DOMAIN front : front[i] = last THEN front
            ELSE Append(front, last)

IsAlnumLower(c) == IsLower(c) \/ c \in Digits

\* split(/[^a-z0-9]+/).filter(Boolean) over an already lowercased string
RECURSIVE SplitAlnum(_, _, _, _)
SplitAlnum(s, i, cur, acc) ==
    IF i > Len(s) THEN (IF cur = <<>> THEN acc ELSE Append(acc, cur))
    ELSE IF IsAlnumLower(s[i]) THEN SplitAlnum(s, i + 1, Append(cur, s[i]), acc)
    ELSE SplitAlnum(s, i + 1, <<>>, IF cur = <<>> THEN acc ELSE Append(acc, cur))

tokenize(value) ==
    IF Falsy(value) THEN <<>> ELSE SplitAlnum(toLowerCase(value.s), 1, <<>>, <<>>)

----------------------------------------------------------------------------
(* extractProperNouns, lines 117-155 *)

\* [\w'-]
IsNameChar(c) == IsWordChar(c) \/ c = "'" \/ c = "-"

IsWordAt(s, p) == p \in 1..Len(s) /\ IsWordChar(s[p])

\* \b between s[p-1] and s[p]
WordBoundary(s, p) == IsWordAt(s, p - 1) # IsWordAt(s, p)

\* s[i..j] matches \b(?:[A-Z][\w'-]*(?:\s+[A-Z][\w'-]*)*)\b
RegexMatches(s, i, j) ==
    /\ i <= j
    /\ IsUpper(s[i])
    /\ WordBoundary(s, i)
    /\ WordBoundary(s, j + 1)
    /\ ~IsSpace(s[j])
    /\ \A k \in i..j :
          /\ IsNameChar(s[k]) \/ IsSpace(s[k])
          /\ IsSpace(s[k]) => (k < j /\ (IsSpace(s[k + 1]) \/ IsUpper(s[k + 1])))

\* the quantifiers are greedy and a match has one parse, so the match the
\* engine reports at i is the longest one; 0 when there is none
MatchEnd(s, i) ==
    LET ends == {j \in i..Len(s) : RegexMatches(s, i, j)}
    IN IF ends = {} THEN 0 ELSE CHOOSE j \in ends : \A e \in ends : e <= j

\* input.match(/.../g)
RECURSIVE MatchAll(_, _, _)
MatchAll(s, i, acc) ==
    IF i > Len(s) THEN acc
    ELSE LET j == MatchEnd(s, i)
         IN IF j = 0 THEN MatchAll(s, i + 1, acc)
            ELSE MatchAll(s, j + 1, Append(acc, SubSeq(s, i, j)))

stopWords == { <<"I">>, <<"W","e">>, <<"U","s">>, <<"Y","o","u">>, <<"H","e">>,
               <<"S","h","e">>, <<"T","h","e","y">>, <<"I","t">>, <<"A">>,
               <<"A","n">>, <<"T","h","e">>, <<"A","n","d">>, <<"O","r">>,
               <<"B","u","t">> }

\* UniqueByLower keeping the value set last for a key
RECURSIVE UniqueByLowerKeepsLast(_, _)
UniqueByLowerKeepsLast(matches, unique) ==
    IF matches = <<>> THEN unique
    ELSE LET trimmed == trim(Head(matches))
             normalized == toLowerCase(trimmed)
         IN IF trimmed = <<>> \/ trimmed \in stopWords
               THEN UniqueByLowerKeepsLast(Tail(matches), unique)
            ELSE IF \E i \in DOMAIN unique : toLowerCase(unique[i]) = normalized
               THEN UniqueByLowerKeepsLast(
                        Tail(matches),
                        [i \in DOMAIN unique |->
                            IF toLowerCase(unique[i]) = normalized THEN trimmed
                            ELSE unique[i]])
            ELSE UniqueByLowerKeepsLast(Tail(matches), Append(unique, trimmed))

\* the Map keyed by the lowercase form keeps the first value set for a key
RECURSIVE UniqueByLower(_, _)
UniqueByLower(matches, unique) ==
    IF matches = <<>> THEN unique
    ELSE LET trimmed == trim(Head(matches))
             normalized == toLowerCase(trimmed)
         IN IF trimmed = <<>> \/ trimmed \in stopWords
               THEN UniqueByLower(Tail(matches), unique)
            ELSE IF \E i \in DOMAIN unique : toLowerCase(unique[i]) = normalized
               THEN UniqueByLower(Tail(matches), unique)
            ELSE UniqueByLower(Tail(matches), Append(unique, trimmed))

extractProperNouns(input) == UniqueByLower(MatchAll(input, 1, <<>>), <<>>)

----------------------------------------------------------------------------
(* Embeddings *)

Arr(v) == [k |-> "arr", v |-> v]
JsonStr(v) == [k |-> "str", v |-> v]
BadEmb == [k |-> "bad", v |-> <<>>]
NullEmb == [k |-> "null", v |-> <<>>]

\* lines 641-658: a copy of a numeric array, a parsed JSON array, or null
sanitizeEmbedding(value) ==
    IF value.k = "arr" THEN Arr(value.v)
    ELSE IF value.k = "str" THEN Arr(value.v)
    ELSE NullEmb

\* Array.isArray(x)
IsArray(e) == e.k = "arr"

RECURSIVE SumOver(_, _, _)
SumOver(a, b, i) == IF i > Len(a) THEN 0 ELSE a[i] * b[i] + SumOver(a, b, i + 1)

RECURSIVE SqrtSearch(_, _, _)
SqrtSearch(n, lo, hi) ==
    IF lo >= hi THEN lo
    ELSE LET mid == (lo + hi + 1) \div 2
         IN IF mid * mid <= n THEN SqrtSearch(n, mid, hi) ELSE SqrtSearch(n, lo, mid - 1)

\* Math.sqrt of an integer, in thousandths
SqrtMilli(n) == SqrtSearch(n * 1000000, 0, 46000)

Abs(x) == IF x < 0 THEN -x ELSE x
Sign(x) == IF x < 0 THEN -1 ELSE 1

\* lines 452-474; the result is in thousandths
computeCosineSimilarity(a, b) ==
    IF ~IsArray(a) \/ ~IsArray(b) \/ Len(a.v) = 0 \/ Len(b.v) = 0 \/ Len(a.v) # Len(b.v)
       THEN 0
    ELSE LET dot == SumOver(a.v, b.v, 1)
             normA == SumOver(a.v, a.v, 1)
             normB == SumOver(b.v, b.v, 1)
         IN IF normA = 0 \/ normB = 0 THEN 0
            ELSE Sign(dot) *
                 ((Abs(dot) * 1000000) \div ((SqrtMilli(normA) * SqrtMilli(normB)) \div 1000))

----------------------------------------------------------------------------
(* Normalisation, lines 598-635 *)

\* normaliseCosine without the floor of negative similarities at 0
normaliseCosineNoFloor(value) ==
    IF value.k \in {"null", "nan"} THEN 0
    ELSE IF value.k = "inf" THEN value.v * 1000
    ELSE Max(-1000, Min(1000, value.v))

normaliseCosine(value) ==
    IF value.k \in {"null", "nan"} THEN 0
    ELSE IF value.k = "inf" THEN (IF value.v > 0 THEN 1000 ELSE 0)
    ELSE LET clamped == Max(-1000, Min(1000, value.v))
         IN IF clamped <= 0 THEN 0 ELSE clamped

\* safe / (safe + 1); Infinity / Infinity is NaN
normaliseBm25(value) ==
    IF value.k \in {"null", "nan"} THEN Num(0)
    ELSE IF value.k = "inf" THEN (IF value.v > 0 THEN NaN ELSE Num(0))
    ELSE LET safe == Max(0, value.v)
         IN Num((safe * 1000) \div (safe + 1000))

\* Number.isFinite
IsFinite(value) == value.k = "num"

clamp01(value) ==
    IF ~IsFinite(value) THEN 0 ELSE Min(1000, Max(0, value.v))

\* Math.tanh at 0, 0.2, ..., 4.0, in thousandths
TanhTable == <<0, 197, 380, 537, 664, 762, 834, 885, 922, 947, 964,
               976, 984, 989, 993, 995, 997, 998, 999, 999, 999>>

\* Math.tanh of x thousandths: the table, interpolated; 1 to three places
\* beyond 4.0
Tanh(x) ==
    IF x >= 4000 THEN 1000
    ELSE LET i == x \div 200
             lo == TanhTable[i + 1]
             hi == TanhTable[i + 2]
         IN lo + ((hi - lo) * (x - i * 200)) \div 200

normaliseEngagement(value) ==
    IF value.k \in {"null", "nan"} THEN 0
    ELSE IF value.k = "inf" THEN (IF value.v > 0 THEN 1000 ELSE 0)
    ELSE LET safe == Max(0, value.v)
         IN IF safe > 1000 THEN Min(1000, Tanh(safe \div 5)) ELSE clamp01(Num(safe))

\* value > 0 for a JS number
GtZero(value) == (value.k = "num" /\ value.v > 0) \/ (value.k = "inf" /\ value.v > 0)

----------------------------------------------------------------------------
(* Scoring, lines 392-596 *)

DEFAULT_RESULT_LIMIT == 20
FALLBACK_CANDIDATE_MULTIPLIER == 3

\* Math.log2 of 2..9, in thousandths
Log2Table == <<0, 1000, 1585, 2000, 2322, 2585, 2807, 3000, 3170>>

RECURSIVE Log2(_)
Log2(m) == IF m <= 9 THEN Log2Table[m] ELSE 1000 + Log2(m \div 2)

InSeq(x, xs) == \E i \in DOMAIN xs : xs[i] = x

\* one turn of the loop of lines 490-518: what it adds to totalWeight and
\* to weightedScore
Bm25Field(text, weight, tokens) ==
    IF Falsy(text) THEN [weight |-> 0, score |-> 0]
    ELSE LET fieldTokens == tokenize(text)
             hits == Cardinality({i \in DOMAIN tokens : InSeq(tokens[i], fieldTokens)})
             saturation == (hits * 1000) \div Len(tokens)
             lengthPenalty == Log2(Len(fieldTokens) + 1)
             penalty == IF lengthPenalty = 0 THEN 1000 ELSE lengthPenalty
         IN IF fieldTokens = <<>> THEN [weight |-> 0, score |-> 0]
            ELSE IF hits = 0 THEN [weight |-> weight, score |-> 0]
            ELSE [weight |-> weight,
                  score |-> (weight * ((saturation * 1000) \div penalty)) \div 1000]

computeBm25Score(row, tokens) ==
    IF Len(tokens) = 0 THEN 0
    ELSE LET t == Bm25Field(row.title_name, 1800, tokens)
             u == Bm25Field(row.summary, 1200, tokens)
             a == Bm25Field(row.authors, 800, tokens)
             weightedScore == t.score + u.score + a.score
             totalWeight == t.weight + u.weight + a.weight
         IN IF totalWeight = 0 THEN 0
            ELSE clamp01(Num((((weightedScore * 1000) \div totalWeight) * 3) \div 2))

\* one turn of the loop of lines 541-561
FieldMatch(text, weight, tokens) ==
    IF Falsy(text) THEN 0
    ELSE LET lower == toLowerCase(text.s)
             hits == Cardinality({i \in DOMAIN tokens : includes(lower, tokens[i])})
             coverage == (hits * 1000) \div Len(tokens)
         IN IF hits = 0 THEN 0 ELSE (weight * coverage) \div 1000

computeFieldMatchBonus(row, tokens) ==
    IF Len(tokens) = 0 THEN 0
    ELSE clamp01(Num(FieldMatch(row.title_name, 500, tokens)
                     + FieldMatch(row.summary, 300, tokens)
                     + FieldMatch(row.authors, 200, tokens)))

\* [a, b, c].filter(Boolean)
RECURSIVE FilterTruthy(_)
FilterTruthy(texts) ==
    IF texts = <<>> THEN <<>>
    ELSE IF Falsy(Head(texts)) THEN FilterTruthy(Tail(texts))
    ELSE <<Head(texts).s>> \o FilterTruthy(Tail(texts))

computeProperNounBoost(row, nouns) ==
    IF Len(nouns) = 0 THEN 0
    ELSE LET haystack == toLowerCase(
                 Join(FilterTruthy(<<row.title_name, row.summary, row.authors>>), <<" ">>))
             hits == Cardinality({i \in DOMAIN nouns : includes(haystack, nouns[i])})
             base == (hits * 1000) \div Len(nouns)
             exactTitleHit ==
                 IF Falsy(row.title_name) THEN FALSE
                 ELSE \E i \in DOMAIN nouns :
                         includes(toLowerCase(row.title_name.s), nouns[i])
             bonus == IF exactTitleHit THEN 100 ELSE 0
         IN IF haystack = <<>> THEN 0
            ELSE IF hits = 0 THEN 0
            ELSE clamp01(Num(base + bonus))

\* Number(x.toFixed(6)) of a value in hundred-thousandths: the nearest
\* thousandth, the resolution numbers are held at
toFixed(x) == (x + 50) \div 100

\* text ?? ''
OrEmpty(t) == IF t.k = "null" THEN <<>> ELSE t.s

\* line 399
vectorScore(row) ==
    normaliseCosine(Coalesce(Coalesce(row.cosine_similarity, row.similarity), Num(0)))

\* lines 400-401
computedBm25(row, queryTokens) ==
    LET bm25FromRow == normaliseBm25(row.bm25_rank)
    IN IF GtZero(bm25FromRow) THEN bm25FromRow.v
       ELSE computeBm25Score(row, queryTokens)

\* properNounScore giving 0 when the query has no proper noun
properNounScoreZeroWithoutNouns(row, lowerProperNouns) ==
    IF lowerProperNouns = <<>> THEN 0
    ELSE IF ~IsNullish(row.proper_noun_boost) THEN clamp01(row.proper_noun_boost)
    ELSE computeProperNounBoost(row, lowerProperNouns)

\* lines 402-405
properNounScore(row, lowerProperNouns) ==
    IF ~IsNullish(row.proper_noun_boost) THEN clamp01(row.proper_noun_boost)
    ELSE computeProperNounBoost(row, lowerProperNouns)

\* fieldBonus computed from the text whatever the row carries
fieldBonusRecomputed(row, queryTokens) == computeFieldMatchBonus(row, queryTokens)

\* lines 406-409
fieldBonus(row, queryTokens) ==
    IF ~IsNullish(row.field_match_bonus) THEN clamp01(row.field_match_bonus)
    ELSE computeFieldMatchBonus(row, queryTokens)

\* lines 398-433: the result pushed for one row
ScoreRow(row, queryTokens, lowerProperNouns) ==
    LET engagement == normaliseEngagement(row.engagement_score)
        totalScore == 45 * vectorScore(row) + 25 * computedBm25(row, queryTokens)
                      + 15 * properNounScore(row, lowerProperNouns)
                      + 10 * fieldBonus(row, queryTokens) + 5 * engagement
    IN [id |-> row.id,
        title_name |-> OrEmpty(row.title_name),
        authors |-> OrEmpty(row.authors),
        summary |-> OrEmpty(row.summary),
        pdf_url |-> OrEmpty(row.pdf_url),
        finalScore |-> toFixed(totalScore),
        breakdown |-> [cosineSimilarity |-> toFixed(100 * vectorScore(row)),
                       bm25Rank |-> toFixed(100 * computedBm25(row, queryTokens)),
                       properNounBoost |->
                           toFixed(100 * properNounScore(row, lowerProperNouns)),
                       fieldMatchBonus |-> toFixed(100 * fieldBonus(row, queryTokens)),
                       engagementScore |-> toFixed(100 * engagement)]]

\* results.sort((a, b) => b.finalScore - a.finalScore): stable, descending
RECURSIVE InsertSorted(_, _)
InsertSorted(sorted, r) ==
    IF sorted = <<>> THEN <<r>>
    ELSE IF sorted[Len(sorted)].finalScore >= r.finalScore THEN Append(sorted, r)
    ELSE Append(InsertSorted(SubSeq(sorted, 1, Len(sorted) - 1), r), sorted[Len(sorted)])

\* SortByScore leaving the rows as they came
SortByScoreUnsorted(results) == results

RECURSIVE SortByScore(_)
SortByScore(results) ==
    IF results = <<>> THEN <<>>
    ELSE InsertSorted(SortByScore(SubSeq(results, 1, Len(results) - 1)),
                      results[Len(results)])

\* Slice without the truncation to the limit
SliceUnbounded(xs, n) == xs

\* xs.slice(0, n) for n > 0 in thousandths: the count is truncated to an integer
Slice(xs, n) == SubSeq(xs, 1, Min(Len(xs), n \div 1000))

combineScores(rows, context) ==
    LET queryTokens == Distinct(tokenize(Str(context.query)))
        lowerProperNouns == [i \in DOMAIN context.properNouns |->
                                toLowerCase(context.properNouns[i])]
        results == [i \in DOMAIN rows |-> ScoreRow(rows[i], queryTokens, lowerProperNouns)]
    IN Slice(SortByScore(results), context.limit)

----------------------------------------------------------------------------
(* The inputs the environment can supply *)

\* rows a data-store reply holds at most
MaxRows == 2

QJainArt == <<"J","a","i","n"," ","a","r","t">>
QJain == <<"J","a","i","n">>
QArt == <<"a","r","t">>
QParty == <<"p","a","r","t","y">>
QPdf == <<"p">>

Src(s) == [k |-> "str", s |-> s]
NullSrc == [k |-> "null", s |-> ""]

Row(id, title, summary, authors, pdf, cos, sim, bm25, eng, fmb, pnb, emb, src) ==
    [id |-> id, title_name |-> title, summary |-> summary, authors |-> authors,
     pdf_url |-> pdf, cosine_similarity |-> cos, similarity |-> sim,
     bm25_rank |-> bm25, engagement_score |-> eng, field_match_bonus |-> fmb,
     proper_noun_boost |-> pnb, embedding |-> emb, match_source |-> src]

\* rows the hybrid ranking procedure may return
HybridPool ==
    { Row(1, Str(QJainArt), Str(QArt), NullStr, Str(QPdf), Num(800), NullNum,
          Num(2000), Num(7000), Num(500), Num(1500), NullEmb, NullSrc),
      Row(2, NullStr, Str(QParty), Str(QJain), NullStr, Num(-500), NullNum,
          Num(0), Num(-1000), Num(-500), NullNum, NullEmb, Src("hybrid")),
      Row(1, Str(QArt), NullStr, NullStr, NullStr, NullNum, Num(300),
          NullNum, NullNum, NullNum, Num(400), Arr(<<1, 0>>), NullSrc) }

\* rows the vector-similarity procedure may return
VectorPool ==
    { Row(1, Str(QJainArt), NullStr, NullStr, Str(QPdf), NullNum, Num(900),
          NullNum, Num(500), NullNum, NullNum, NullEmb, NullSrc),
      Row(2, NullStr, Str(QParty), NullStr, NullStr, NullNum, Num(400),
          Num(3000), NullNum, Num(700), Num(600), Arr(<<1, 1>>), NullSrc),
      Row(1, NullStr, Str(QArt), Str(QJain), NullStr, NullNum, NullNum,
          NullNum, NullNum, NullNum, NullNum, JsonStr(<<0, 1>>), NullSrc) }

\* rows a select of id, title_name, summary, authors, pdf_url,
\* engagement_score, embedding on the records table may return
ScanPool ==
    { Row(1, NullStr, Str(QArt), Str(QJain), Str(QPdf), NullNum, NullNum,
          NullNum, Num(500), NullNum, NullNum, Arr(<<1, 0>>), NullSrc),
      Row(2, Str(QJainArt), NullStr, NullStr, NullStr, NullNum, NullNum,
          NullNum, NullNum, NullNum, NullNum, NullEmb, NullSrc),
      Row(3, Str(QParty), Str(<<>>), NullStr, NullStr, NullNum, NullNum,
          NullNum, Num(30000), NullNum, NullNum, BadEmb, NullSrc) }

\* the same select with .not('embedding', 'is', null)
EmbeddedScanPool == {r \in ScanPool : r.embedding.k # "null"}

Lists(pool) == UNION {[1..n -> pool] : n \in 0..MaxRows}

\* what awaiting a data-store call can give: the promise rejects, or it
\* resolves to {error}, to {data: null} or to {data: rows}
Replies(pool) ==
    {[kind |-> k, rows |-> <<>>] : k \in {"reject", "error", "nodata"}}
    \cup {[kind |-> "rows", rows |-> rows] : rows \in Lists(pool)}

HybridReplies == Replies(HybridPool)
VectorReplies == Replies(VectorPool)
VectorFallbackReplies == Replies(EmbeddedScanPool)
ScanReplies == Replies(ScanPool)

NoReply == [kind |-> "none", rows |-> <<>>]

ReplyTag(reply) ==
    IF reply.kind = "rows" /\ reply.rows = <<>> THEN "empty" ELSE reply.kind

\* what the embedding request can give: fetch rejects, a non-2xx status, a
\* body that is not JSON, a body without a vector, or a vector
EmbeddingReplies ==
    {[kind |-> k, vector |-> <<>>] : k \in {"reject", "notok", "badjson", "novector"}}
    \cup {[kind |-> "vector", vector |-> v] : v \in {<<>>, <<1, 0>>}}

Methods == {"GET", "POST"}

\* body.query: missing, not a string, or a string
BodyQueries ==
    { NullStr, [k |-> "other", s |-> <<>>], Str(<<>>), Str(<<" ", " ">>),
      Str(<<" ">> \o QArt), Str(QJainArt \o <<" ">>) }

\* req.query.limit: absent or a string
LimitParams ==
    { NullStr, Str(<<"a","b","c">>), Str(<<"0">>), Str(<<"1">>),
      Str(<<"2",".","5">>), Str(<<"1","0","0">>) }

----------------------------------------------------------------------------
(* Number(value) for the limit parameter, line 91 *)

DigitSeq == <<"0","1","2","3","4","5","6","7","8","9">>
DigitVal(c) == (CHOOSE i \in DOMAIN DigitSeq : DigitSeq[i] = c) - 1

RECURSIVE DigitsValue(_)
DigitsValue(ds) ==
    IF ds = <<>> THEN 0 ELSE DigitsValue(SubSeq(ds, 1, Len(ds) - 1)) * 10 + DigitVal(ds[Len(ds)])

AllDigits(ds) == \A i \in DOMAIN ds : ds[i] \in Digits

\* the first three decimals of a fraction, in thousandths
FractionMilli(ds) ==
    DigitsValue(SubSeq(ds \o <<"0","0","0">>, 1, 3))

\* an unsigned decimal literal: digits, digits.digits, digits. or .digits
UnsignedNumber(t) ==
    LET dots == {i \in DOMAIN t : t[i] = "."}
    IN IF t = <<"I","n","f","i","n","i","t","y">> THEN PosInf
       ELSE IF dots = {} THEN
            (IF t # <<>> /\ AllDigits(t) THEN Num(Milli(DigitsValue(t))) ELSE NaN)
       ELSE LET d == CHOOSE i \in dots : TRUE
                whole == SubSeq(t, 1, d - 1)
                frac == SubSeq(t, d + 1, Len(t))
            IN IF Cardinality(dots) = 1 /\ AllDigits(whole) /\ AllDigits(frac)
                  /\ Len(whole) + Len(frac) > 0
                  THEN Num(Milli(DigitsValue(whole)) + FractionMilli(frac))
               ELSE NaN

Negate(n) == IF n.k \in {"num", "inf"} THEN [n EXCEPT !.v = -n.v] ELSE n

\* Number(s) for a string: blank is 0, a signed decimal literal is its
\* value, anything else is NaN
StringToNumber(s) ==
    LET t == trim(s)
    IN IF t = <<>> THEN Num(0)
       ELSE IF Head(t) = "-" THEN Negate(UnsignedNumber(Tail(t)))
       ELSE IF Head(t) = "+" THEN UnsignedNumber(Tail(t))
       ELSE UnsignedNumber(t)

\* lines 91-92, in thousandths
EffectiveLimit(param) ==
    LET limitParam == IF param.k = "null" THEN Num(Milli(DEFAULT_RESULT_LIMIT))
                      ELSE StringToNumber(param.s)
    IN IF IsFinite(limitParam) /\ limitParam.v > 0 THEN Min(limitParam.v, Milli(50))
       ELSE Milli(DEFAULT_RESULT_LIMIT)

----------------------------------------------------------------------------
(* The retriever's pure parts, lines 198-390 *)

\* !response.error && Array.isArray(response.data)
HasData(reply) == reply.kind = "rows"

\* hasQueryEmbedding without the test
hasQueryEmbeddingAlways(e) == TRUE

\* Array.isArray(embedding) && embedding.length > 0, line 208
hasQueryEmbedding(e) == IsArray(e) /\ Len(e.v) > 0

\* line 205, in thousandths
candidateCount(lim) == Max(lim * FALLBACK_CANDIDATE_MULTIPLIER, Milli(40))

\* line 349, in thousandths
fallbackLimit(lim) == Max(lim, Milli(10))

\* getQueryEmbedding handing on an empty vector
getQueryEmbeddingKeepsEmpty(reply) ==
    IF reply.kind = "vector" THEN Arr(reply.vector) ELSE NullEmb

\* lines 177-191 and the catch of 192-195: what getQueryEmbedding returns
\* for a reply of the embedding service
getQueryEmbedding(reply) ==
    IF reply.kind = "vector" /\ Len(reply.vector) > 0 THEN Arr(reply.vector)
    ELSE NullEmb

\* HybridOutcome returning the rows only when there are at least two
HybridOutcomeSkipsSingle(reply) ==
    IF reply.kind = "reject" THEN "throw"
    ELSE IF reply.kind = "rows" /\ Len(reply.rows) > 1 THEN "return"
    ELSE "continue"

\* HybridOutcome raising the hybrid call's error
HybridOutcomeThrowsOnError(reply) ==
    IF reply.kind \in {"reject", "error"} THEN "throw"
    ELSE IF reply.kind = "rows" /\ Len(reply.rows) > 0 THEN "return"
    ELSE "continue"

\* lines 218-235: what the retriever does with the hybrid call's reply: the
\* rejection propagates, the rows are returned, or the cascade goes on
HybridOutcome(reply) ==
    IF reply.kind = "reject" THEN "throw"
    ELSE IF HasData(reply) /\ Len(reply.rows) > 0 THEN "return"
    ELSE "continue"

\* TagRpc overwriting the source a row carries
TagRpcOverwrite(rows) ==
    [i \in DOMAIN rows |-> [rows[i] EXCEPT !.match_source = Src("rpc")]]

\* lines 220-223
TagRpc(rows) ==
    [i \in DOMAIN rows |->
        [rows[i] EXCEPT !.match_source = Coalesce(rows[i].match_source, Src("rpc"))]]

IndexOfId(map, id) ==
    IF \E i \in DOMAIN map : map[i].id = id
       THEN CHOOSE i \in DOMAIN map : map[i].id = id
    ELSE 0

\* a candidate every field of which is null: existing?.f ?? null reads the
\* same from it as from an absent candidate
NoCandidate ==
    Row(0, NullStr, NullStr, NullStr, NullStr, NullNum, NullNum, NullNum, NullNum,
        NullNum, NullNum, NullEmb, NullSrc)

\* candidateMap.get(id)
MapGet(map, id) == IF IndexOfId(map, id) = 0 THEN NoCandidate ELSE map[IndexOfId(map, id)]

\* candidateMap.set(c.id, c): a Map keeps the place of a key it already holds
MapSet(map, c) ==
    IF IndexOfId(map, c.id) = 0 THEN Append(map, c)
    ELSE [map EXCEPT ![IndexOfId(map, c.id)] = c]

\* existing?.match_source ? `${existing.match_source}+tag` : tag
AppendSource(existing, tag) ==
    IF existing.match_source.k = "null" \/ existing.match_source.s = ""
       THEN Src(tag)
    ELSE Src(existing.match_source.s \o "+" \o tag)

\* VectorItem taking the lexical rank, the field-match bonus and the
\* proper-noun boost from the row when it has them
VectorItemKeepsScores(map, item, emb) ==
    LET existing == MapGet(map, item.id)
        sanitizedEmbedding == sanitizeEmbedding(Coalesce(item.embedding, existing.embedding))
        cosine == IF IsArray(sanitizedEmbedding) /\ emb.k # "null"
                     THEN Num(computeCosineSimilarity(sanitizedEmbedding, emb))
                  ELSE Coalesce(item.cosine_similarity,
                                Coalesce(item.similarity, existing.cosine_similarity))
    IN Row(item.id,
           Coalesce(item.title_name, existing.title_name),
           Coalesce(item.summary, existing.summary),
           Coalesce(item.authors, existing.authors),
           Coalesce(item.pdf_url, existing.pdf_url),
           cosine,
           NullNum,
           Coalesce(item.bm25_rank, existing.bm25_rank),
           Coalesce(item.engagement_score, existing.engagement_score),
           Coalesce(item.field_match_bonus, existing.field_match_bonus),
           Coalesce(item.proper_noun_boost, existing.proper_noun_boost),
           sanitizedEmbedding,
           AppendSource(existing, "vector"))

\* lines 245-268: the candidate set for one row of match_records
VectorItem(map, item, emb) ==
    LET existing == MapGet(map, item.id)
        sanitizedEmbedding == sanitizeEmbedding(Coalesce(item.embedding, existing.embedding))
        cosine == IF IsArray(sanitizedEmbedding) /\ emb.k # "null"
                     THEN Num(computeCosineSimilarity(sanitizedEmbedding, emb))
                  ELSE Coalesce(item.cosine_similarity,
                                Coalesce(item.similarity, existing.cosine_similarity))
    IN Row(item.id,
           Coalesce(item.title_name, existing.title_name),
           Coalesce(item.summary, existing.summary),
           Coalesce(item.authors, existing.authors),
           Coalesce(item.pdf_url, existing.pdf_url),
           cosine,
           NullNum,
           existing.bm25_rank,
           Coalesce(item.engagement_score, existing.engagement_score),
           existing.field_match_bonus,
           existing.proper_noun_boost,
           sanitizedEmbedding,
           AppendSource(existing, "vector"))

\* lines 281-298: the candidate set for one row of the vector fallback scan
VectorFallbackItem(item, emb) ==
    LET sanitizedEmbedding == sanitizeEmbedding(item.embedding)
    IN Row(item.id, item.title_name, item.summary, item.authors, item.pdf_url,
           IF IsArray(sanitizedEmbedding) /\ emb.k # "null"
              THEN Num(computeCosineSimilarity(sanitizedEmbedding, emb))
           ELSE NullNum,
           NullNum, NullNum, item.engagement_score, NullNum, NullNum,
           sanitizedEmbedding, Src("vector-fallback"))

\* lines 329-344: the candidate set for one row of the text search
TextItem(map, item) ==
    LET existing == MapGet(map, item.id)
        sanitizedEmbedding == sanitizeEmbedding(Coalesce(item.embedding, existing.embedding))
    IN Row(item.id,
           Coalesce(item.title_name, existing.title_name),
           Coalesce(item.summary, existing.summary),
           Coalesce(item.authors, existing.authors),
           Coalesce(item.pdf_url, existing.pdf_url),
           existing.cosine_similarity,
           NullNum,
           existing.bm25_rank,
           Coalesce(item.engagement_score, existing.engagement_score),
           existing.field_match_bonus,
           existing.proper_noun_boost,
           sanitizedEmbedding,
           AppendSource(existing, "text"))

\* lines 357-374: the candidate set for one row of the plain scan
PlainItem(item, emb) ==
    LET sanitizedEmbedding == sanitizeEmbedding(item.embedding)
    IN Row(item.id, item.title_name, item.summary, item.authors, item.pdf_url,
           IF IsArray(sanitizedEmbedding) /\ emb.k # "null"
              THEN Num(computeCosineSimilarity(sanitizedEmbedding, emb))
           ELSE NullNum,
           NullNum, NullNum, item.engagement_score, NullNum, NullNum,
           sanitizedEmbedding, Src("fallback"))

\* the loop of lines 244-269
RECURSIVE VectorLoop(_, _, _)
VectorLoop(map, items, emb) ==
    IF items = <<>> THEN map
    ELSE VectorLoop(MapSet(map, VectorItem(map, Head(items), emb)), Tail(items), emb)

\* the loop of lines 280-299
RECURSIVE VectorFallbackLoop(_, _, _)
VectorFallbackLoop(map, items, emb) ==
    IF items = <<>> THEN map
    ELSE VectorFallbackLoop(MapSet(map, VectorFallbackItem(Head(items), emb)),
                            Tail(items), emb)

\* the loop of lines 328-345
RECURSIVE TextLoop(_, _)
TextLoop(map, items) ==
    IF items = <<>> THEN map
    ELSE TextLoop(MapSet(map, TextItem(map, Head(items))), Tail(items))

\* the loop of lines 356-375
RECURSIVE PlainLoop(_, _, _)
PlainLoop(map, items, emb) ==
    IF items = <<>> THEN map
    ELSE PlainLoop(MapSet(map, PlainItem(Head(items), emb)), Tail(items), emb)

MergeVector(map, reply, emb) ==
    IF HasData(reply) THEN VectorLoop(map, reply.rows, emb) ELSE map

MergeVectorFallback(map, reply, emb) ==
    IF HasData(reply) THEN VectorFallbackLoop(map, reply.rows, emb) ELSE map

MergeText(map, reply) ==
    IF HasData(reply) THEN TextLoop(map, reply.rows) ELSE map

MergePlain(map, reply, emb) ==
    IF HasData(reply) THEN PlainLoop(map, reply.rows, emb) ELSE map

\* Candidates without the backfill
CandidatesAsMerged(map, emb) == map

\* lines 379-389: the candidates returned when the hybrid call did not
\* short-circuit, after the backfill of missing cosine similarities
Candidates(map, emb) ==
    IF hasQueryEmbedding(emb)
       THEN [i \in DOMAIN map |->
               IF IsNullish(map[i].cosine_similarity) /\ IsArray(map[i].embedding)
                  THEN [map[i] EXCEPT !.cosine_similarity =
                           Num(computeCosineSimilarity(map[i].embedding, emb))]
               ELSE map[i]]
    ELSE map

----------------------------------------------------------------------------
(* The request handler and the retriever as a state machine: one action per
   stretch of code between two awaits *)

NoRequest == [method |-> "", query |-> NullStr, limit |-> NullStr]
NoResponse == [status |-> 0, results |-> <<>>, message |-> ""]

MethodNotAllowed == [status |-> 405, results |-> <<>>, message |-> "Method not allowed"]
BadRequest ==
    [status |-> 400, results |-> <<>>, message |-> "Query must be a non-empty string"]
ServerError ==
    [status |-> 500, results |-> <<>>, message |-> "Failed to execute smart search"]
\* Ok answering an empty result list with a not-found status
OkNotFoundWhenEmpty(results) ==
    [status |-> IF results = <<>> THEN 404 ELSE 200, results |-> results, message |-> ""]

Ok(results) == [status |-> 200, results |-> results, message |-> ""]

\* an outbound call: its target, the row count it asks for, how it was
\* answered and, for the embedding request, the vector the service sent
Call(name, count) ==
    [name |-> name, count |-> count, reply |-> "pending", vector |-> <<>>]

\* the log with the call in flight answered
Answered(log, tag) == [log EXCEPT ![Len(log)].reply = tag]

\* the log with the embedding request answered
AnsweredEmbedding(log, reply) ==
    [log EXCEPT ![Len(log)].reply = reply.kind, ![Len(log)].vector = reply.vector]

\* QueryAccepted without the trim
QueryAcceptedUntrimmed(query) == query.k = "str" /\ Len(query.s) # 0

\* line 86: the body's query is a string that is not empty once trimmed
QueryAccepted(query) == query.k = "str" /\ Len(trim(query.s)) # 0

\* lines 59-76: whether the call returns a client (it throws otherwise)
getSupabaseClient == cachedSupabase \/ supabaseCreds

\* createsClient without the test of the cached handle
createsClientEveryCall == supabaseCreds

\* lines 60-73: whether the call reaches createClient
createsClient == ~cachedSupabase /\ supabaseCreds

\* the locals of a request that has not arrived
NoLocals ==
    [pc |-> "idle", trimmedQuery |-> <<>>, limit |-> 0, properNouns |-> <<>>,
     embedding |-> NullEmb, candidateMap |-> <<>>, rawCandidates |-> <<>>,
     res |-> NoResponse]

Requests == {1, 2}
NoInflight == [r \in Requests |-> NoLocals]
NoStore ==
    [embeddings |-> [kind |-> "none", vector |-> <<>>], hybrid |-> NoReply,
     vector |-> NoReply, vfallback |-> NoReply, text |-> NoReply,
     pattern |-> NoReply, plain |-> NoReply]

(* The search page of src/pages/smart-search.tsx. A search the page has     *)
(* issued is [id, q]; latest is the last one issued, id 0 when the last     *)
(* event cleared the page instead of searching.                             *)
NoSearch == [id |-> 0, q |-> <<>>, outcome |-> "none"]
NoPage ==
    [query |-> <<>>, results |-> <<>>, error |-> NullStr, isLoading |-> FALSE,
     hasSearched |-> FALSE, lastExecutedQueryRef |-> <<>>, urlQ |-> <<>>,
     effectDue |-> FALSE, pending |-> {}, issued |-> 0, latest |-> NoSearch]

Init ==
    /\ openaiKey \in BOOLEAN
    /\ supabaseCreds \in BOOLEAN
    /\ cachedSupabase = FALSE
    /\ pc = "idle"
    /\ req = NoRequest
    /\ trimmedQuery = <<>>
    /\ limit = 0
    /\ properNouns = <<>>
    /\ embedding = NullEmb
    /\ candidateMap = <<>>
    /\ rpcData = NoReply
    /\ vectorResponse = NoReply
    /\ textDataResponse = NoReply
    /\ rawCandidates = <<>>
    /\ res = NoResponse
    /\ calls = <<>>
    /\ stages = {}
    /\ created = 0
    /\ store = NoStore
    /\ inflight = NoInflight
    /\ page = NoPage

\* Throw without the catch: the exception leaves the handler unanswered
ThrowUncaught(log) ==
    /\ calls' = log
    /\ res' = NoResponse
    /\ pc' = "done"
    /\ UNCHANGED <<rawCandidates, stages>>

\* lines 111-114: an exception reaches the handler's catch
Throw(log) ==
    /\ calls' = log
    /\ res' = ServerError
    /\ pc' = "done"
    /\ UNCHANGED <<rawCandidates, stages>>

\* querySupabase returns cands; lines 104-110
Return(cands, log) ==
    /\ calls' = log
    /\ rawCandidates' = cands
    /\ res' = Ok(combineScores(cands, [query |-> trimmedQuery,
                                       properNouns |-> properNouns,
                                       limit |-> limit]))
    /\ stages' = stages \cup {"score"}
    /\ pc' = "done"

\* Issue sending the call a second time without waiting for the first
IssueTwice(log, call, at) ==
    /\ calls' = Append(Append(log, call), call)
    /\ pc' = at
    /\ UNCHANGED <<res, rawCandidates, stages>>

\* the next data-store call is issued and awaited
Issue(log, call, at) ==
    /\ calls' = Append(log, call)
    /\ pc' = at
    /\ UNCHANGED <<res, rawCandidates, stages>>

\* lines 97 and 204-216, or 204-208 and 304-308 without a query embedding
EnterQuerySupabase(emb, log, lim, entered) ==
    /\ stages' = entered \cup {"retrieve"}
    /\ cachedSupabase' = getSupabaseClient
    /\ created' = IF createsClient THEN created + 1 ELSE created
    /\ rawCandidates' = <<>>
    /\ IF ~getSupabaseClient
          THEN /\ calls' = log
               /\ res' = ServerError
               /\ pc' = "done"
       ELSE /\ res' = NoResponse
            /\ IF hasQueryEmbedding(emb)
                  THEN /\ calls' = Append(log, Call("smart_search_candidates",
                                                    candidateCount(lim)))
                       /\ pc' = "rpc"
               ELSE /\ calls' = Append(log, Call("text_search", candidateCount(lim)))
                    /\ pc' = "text"

\* a response ends the request without running the pipeline
Reject(response) ==
    /\ trimmedQuery' = <<>>
    /\ limit' = 0
    /\ properNouns' = <<>>
    /\ embedding' = NullEmb
    /\ rawCandidates' = <<>>
    /\ res' = response
    /\ calls' = <<>>
    /\ stages' = {}
    /\ pc' = "done"
    /\ UNCHANGED <<cachedSupabase, created>>

\* lines 78-96 and 157-175: a request arrives and runs to its first await
Receive ==
    /\ pc = "idle"
    /\ \E method \in Methods, query \in BodyQueries, lim \in LimitParams :
        /\ req' = [method |-> method, query |-> query, limit |-> lim]
        /\ candidateMap' = <<>>
        /\ rpcData' = NoReply
        /\ vectorResponse' = NoReply
        /\ textDataResponse' = NoReply
        /\ \/ /\ method # "POST"
              /\ Reject(MethodNotAllowed)
           \/ /\ method = "POST"
              /\ ~QueryAccepted(query)
              /\ Reject(BadRequest)
           \/ /\ method = "POST"
              /\ QueryAccepted(query)
              /\ trimmedQuery' = trim(query.s)
              /\ limit' = EffectiveLimit(lim)
              /\ properNouns' = extractProperNouns(trim(query.s))
              /\ embedding' = NullEmb
              /\ \/ /\ ~openaiKey
                    /\ EnterQuerySupabase(NullEmb, <<>>, EffectiveLimit(lim),
                                          {"extract", "embed"})
                 \/ /\ openaiKey
                    /\ calls' = <<Call("embeddings", 0)>>
                    /\ stages' = {"extract", "embed"}
                    /\ rawCandidates' = <<>>
                    /\ res' = NoResponse
                    /\ pc' = "fetch"
                    /\ UNCHANGED <<cachedSupabase, created>>
    /\ UNCHANGED <<openaiKey, supabaseCreds, store, inflight, page>>

\* lines 177-195, then 97 and the entry of querySupabase
EmbeddingResponds ==
    /\ pc = "fetch"
    /\ \E reply \in EmbeddingReplies :
        /\ embedding' = getQueryEmbedding(reply)
        /\ EnterQuerySupabase(getQueryEmbedding(reply), AnsweredEmbedding(calls, reply),
                              limit, stages)
    /\ UNCHANGED <<openaiKey, supabaseCreds, req, trimmedQuery, limit, properNouns,
                   candidateMap, rpcData, vectorResponse, textDataResponse, store,
                   inflight, page>>

\* lines 218-241
HybridResponds ==
    /\ pc = "rpc"
    /\ \/ \E reply \in HybridReplies :
              /\ HybridOutcome(reply) = "throw"
              /\ rpcData' = reply
              /\ Throw(Answered(calls, ReplyTag(reply)))
       \/ \E reply \in HybridReplies :
              /\ HybridOutcome(reply) = "continue"
              /\ rpcData' = reply
              /\ Issue(Answered(calls, ReplyTag(reply)),
                       Call("match_records", candidateCount(limit)), "vector")
       \/ \E reply \in HybridReplies :
              /\ HybridOutcome(reply) = "return"
              /\ rpcData' = reply
              /\ Return(TagRpc(reply.rows), Answered(calls, ReplyTag(reply)))
    /\ UNCHANGED <<openaiKey, supabaseCreds, cachedSupabase, created, store, inflight, page,
                   req, trimmedQuery, limit,
                   properNouns, embedding, candidateMap, vectorResponse,
                   textDataResponse>>

\* lines 243-277, or 243-272 and 304-308
VectorResponds ==
    /\ pc = "vector"
    /\ \/ \E reply \in VectorReplies :
           /\ reply.kind = "reject"
           /\ Throw(Answered(calls, "reject"))
           /\ UNCHANGED <<candidateMap, vectorResponse>>
       \/ \E reply \in VectorReplies :
           /\ reply.kind # "reject"
           /\ vectorResponse' = reply
           /\ candidateMap' = MergeVector(candidateMap, reply, embedding)
           /\ IF Len(candidateMap') = 0
                 THEN Issue(Answered(calls, ReplyTag(reply)),
                            Call("vector_fallback", candidateCount(limit)), "vfallback")
              ELSE Issue(Answered(calls, ReplyTag(reply)),
                         Call("text_search", candidateCount(limit)), "text")
    /\ UNCHANGED <<openaiKey, supabaseCreds, cachedSupabase, created, store, inflight, page,
                   req, trimmedQuery, limit,
                   properNouns, embedding, rpcData, textDataResponse>>

\* lines 279-308
VectorFallbackResponds ==
    /\ pc = "vfallback"
    /\ \/ \E reply \in VectorFallbackReplies :
           /\ reply.kind = "reject"
           /\ Throw(Answered(calls, "reject"))
           /\ UNCHANGED candidateMap
       \/ \E reply \in VectorFallbackReplies :
           /\ reply.kind # "reject"
           /\ candidateMap' = MergeVectorFallback(candidateMap, reply, embedding)
           /\ Issue(Answered(calls, ReplyTag(reply)),
                    Call("text_search", candidateCount(limit)), "text")
    /\ UNCHANGED <<openaiKey, supabaseCreds, cachedSupabase, created, store, inflight, page,
                   req, trimmedQuery, limit,
                   properNouns, embedding, rpcData, vectorResponse,
                   textDataResponse>>

\* AfterText without the test of the map's size
AfterTextAlwaysScans(map, log) ==
    Issue(log, Call("plain_scan", fallbackLimit(limit)), "plain")

\* lines 348-353, or 379-389 and the handler's 104-110
AfterText(map, log) ==
    IF Len(map) = 0
       THEN Issue(log, Call("plain_scan", fallbackLimit(limit)), "plain")
    ELSE Return(Candidates(map, embedding), log)

\* lines 310-324, or 310-312 and 327-353, or 327-389
TextResponds ==
    /\ pc = "text"
    /\ \/ \E reply \in ScanReplies :
           /\ reply.kind = "reject"
           /\ Throw(Answered(calls, "reject"))
           /\ UNCHANGED <<candidateMap, textDataResponse>>
       \/ \E reply \in ScanReplies :
           /\ reply.kind = "error"
           /\ textDataResponse' = reply
           /\ Issue(Answered(calls, "error"),
                    Call("pattern_search", candidateCount(limit)), "pattern")
           /\ UNCHANGED candidateMap
       \/ \E reply \in ScanReplies :
           /\ reply.kind \notin {"reject", "error"}
           /\ textDataResponse' = reply
           /\ candidateMap' = MergeText(candidateMap, reply)
           /\ AfterText(candidateMap', Answered(calls, ReplyTag(reply)))
    /\ UNCHANGED <<openaiKey, supabaseCreds, cachedSupabase, created, store, inflight, page,
                   req, trimmedQuery, limit,
                   properNouns, embedding, rpcData, vectorResponse>>

\* lines 327-353, or 327-389, after the pattern-match query
PatternResponds ==
    /\ pc = "pattern"
    /\ \/ \E reply \in ScanReplies :
           /\ reply.kind = "reject"
           /\ Throw(Answered(calls, "reject"))
           /\ UNCHANGED <<candidateMap, textDataResponse>>
       \/ \E reply \in ScanReplies :
           /\ reply.kind # "reject"
           /\ textDataResponse' = reply
           /\ candidateMap' = MergeText(candidateMap, reply)
           /\ AfterText(candidateMap', Answered(calls, ReplyTag(reply)))
    /\ UNCHANGED <<openaiKey, supabaseCreds, cachedSupabase, created, store, inflight, page,
                   req, trimmedQuery, limit,
                   properNouns, embedding, rpcData, vectorResponse>>

\* lines 355-389 and the handler's 104-110
PlainResponds ==
    /\ pc = "plain"
    /\ \/ \E reply \in ScanReplies :
           /\ reply.kind = "reject"
           /\ Throw(Answered(calls, "reject"))
           /\ UNCHANGED candidateMap
       \/ \E reply \in ScanReplies :
           /\ reply.kind # "reject"
           /\ candidateMap' = MergePlain(candidateMap, reply, embedding)
           /\ Return(Candidates(candidateMap', embedding),
                     Answered(calls, ReplyTag(reply)))
    /\ UNCHANGED <<openaiKey, supabaseCreds, cachedSupabase, created, store, inflight, page,
                   req, trimmedQuery, limit,
                   properNouns, embedding, rpcData, vectorResponse,
                   textDataResponse>>

\* the handler has returned: the request and its locals are dropped, the
\* module-level client handle stays
Discard ==
    /\ pc = "done"
    /\ pc' = "idle"
    /\ req' = NoRequest
    /\ trimmedQuery' = <<>>
    /\ limit' = 0
    /\ properNouns' = <<>>
    /\ embedding' = NullEmb
    /\ candidateMap' = <<>>
    /\ rpcData' = NoReply
    /\ vectorResponse' = NoReply
    /\ textDataResponse' = NoReply
    /\ rawCandidates' = <<>>
    /\ res' = NoResponse
    /\ calls' = <<>>
    /\ stages' = {}
    /\ UNCHANGED <<openaiKey, supabaseCreds, cachedSupabase, created, store, inflight, page>>

Next ==
    \/ Receive
    \/ Discard
    \/ EmbeddingResponds
    \/ HybridResponds
    \/ VectorResponds
    \/ VectorFallbackResponds
    \/ TextResponds
    \/ PatternResponds
    \/ PlainResponds

Spec == Init /\ [][Next]_vars

\* a call in flight is answered: it returns or it fails
Responds ==
    \/ EmbeddingResponds
    \/ HybridResponds
    \/ VectorResponds
    \/ VectorFallbackResponds
    \/ TextResponds
    \/ PatternResponds
    \/ PlainResponds

\* every outbound call a request awaits is eventually answered
CallsAnswered == WF_vars(Responds)

SpecLive == Init /\ [][Next]_vars /\ CallsAnswered

----------------------------------------------------------------------------
(* The scoring engine alone: combineScores applied to one drawn row *)

\* values a signal field of a row can hold
SignalValues ==
    { NullNum, NaN, PosInf, NegInf, Num(-2000), Num(0), Num(300), Num(1000),
      Num(1001), Num(7000), Num(1000000) }

ScoreTexts ==
    { <<Str(QJainArt), Str(QParty), NullStr>>,
      <<NullStr, Str(QArt), Str(QJain)>>,
      <<Str(QParty), NullStr, Str(<<>>)>> }

\* rows that vary two signals at a time, the others absent
ScoreRows ==
    UNION { { Row(1, t[1], t[2], t[3], NullStr, v, w, NullNum, NullNum, NullNum,
                  NullNum, NullEmb, Src("rpc")),
              Row(1, t[1], t[2], t[3], NullStr, NullNum, NullNum, v, w, NullNum,
                  NullNum, NullEmb, Src("rpc")),
              Row(1, t[1], t[2], t[3], NullStr, NullNum, NullNum, NullNum, NullNum,
                  v, w, NullEmb, Src("rpc")) } :
            t \in ScoreTexts, v \in SignalValues, w \in SignalValues }

InitScore ==
    /\ openaiKey = TRUE
    /\ supabaseCreds = TRUE
    /\ cachedSupabase = TRUE
    /\ pc = "score"
    /\ req = NoRequest
    /\ trimmedQuery \in {QArt, QJainArt}
    /\ limit = Milli(DEFAULT_RESULT_LIMIT)
    /\ properNouns = extractProperNouns(trimmedQuery)
    /\ embedding = NullEmb
    /\ candidateMap = <<>>
    /\ rpcData = NoReply
    /\ vectorResponse = NoReply
    /\ textDataResponse = NoReply
    /\ \E row \in ScoreRows : rawCandidates = <<row>>
    /\ res = NoResponse
    /\ calls = <<>>
    /\ stages = {"extract", "embed", "retrieve"}
    /\ created = 1
    /\ store = NoStore
    /\ inflight = NoInflight
    /\ page = NoPage

\* lines 104-110 on the drawn row
Score ==
    /\ pc = "score"
    /\ Return(rawCandidates, calls)
    /\ UNCHANGED <<openaiKey, supabaseCreds, cachedSupabase, created, store, inflight, page,
                   req, trimmedQuery, limit,
                   properNouns, embedding, candidateMap, rpcData, vectorResponse,
                   textDataResponse>>

NextScore == Score

SpecScore == InitScore /\ [][NextScore]_vars

----------------------------------------------------------------------------
(* The ranking alone: combineScores applied to a drawn list of candidates
   that differ in their cosine similarity only *)

\* candidates a drawn list holds at most
MaxRanked == 4

RankCosines == {Num(0), Num(400), Num(900)}

RankRow(id, cos) ==
    Row(id, NullStr, NullStr, NullStr, NullStr, cos, NullNum, NullNum, NullNum,
        NullNum, NullNum, NullEmb, Src("text"))

\* lists of candidates with the identifiers 1, 2, ... in that order
RankLists ==
    UNION { { [i \in 1..n |-> RankRow(i, cs[i])] : cs \in [1..n -> RankCosines] } :
            n \in 1..MaxRanked }

\* effective limits: 1, 2.5, 3 and the default
RankLimits == {Milli(1), 2500, Milli(3), Milli(DEFAULT_RESULT_LIMIT)}

InitRank ==
    /\ openaiKey = TRUE
    /\ supabaseCreds = TRUE
    /\ cachedSupabase = TRUE
    /\ pc = "score"
    /\ req = NoRequest
    /\ trimmedQuery = QArt
    /\ limit \in RankLimits
    /\ properNouns = <<>>
    /\ embedding = NullEmb
    /\ candidateMap = <<>>
    /\ rpcData = NoReply
    /\ vectorResponse = NoReply
    /\ textDataResponse = NoReply
    /\ rawCandidates \in RankLists
    /\ res = NoResponse
    /\ calls = <<>>
    /\ stages = {"extract", "embed", "retrieve"}
    /\ created = 1
    /\ store = NoStore
    /\ inflight = NoInflight
    /\ page = NoPage

SpecRank == InitRank /\ [][NextScore]_vars

----------------------------------------------------------------------------
(* The proper-noun extractor alone: extractProperNouns applied to a drawn
   query *)

\* words a drawn query holds at most
MaxWords == 3

\* stop words, capitalised and other words, a trailing hyphen, a capital
\* inside a word, an apostrophe
NounWords ==
    { <<"T","h","e">>, <<"A">>, <<"A","b">>, <<"A","B">>, <<"a","b">>,
      <<"A","b","-">>, <<"x","A","b">>, <<"O","'","n">> }

\* the words of ws with one space between them
RECURSIVE Spaced(_)
Spaced(ws) ==
    IF ws = <<>> THEN <<>>
    ELSE IF Len(ws) = 1 THEN ws[1]
    ELSE ws[1] \o <<" ">> \o Spaced(Tail(ws))

NounQueries ==
    UNION { {Spaced(ws) : ws \in [1..n -> NounWords]} : n \in 1..MaxWords }

InitNouns ==
    /\ openaiKey = TRUE
    /\ supabaseCreds = TRUE
    /\ cachedSupabase = FALSE
    /\ created = 0
    /\ pc = "nouns"
    /\ req = NoRequest
    /\ trimmedQuery \in NounQueries
    /\ limit = Milli(DEFAULT_RESULT_LIMIT)
    /\ properNouns = <<>>
    /\ embedding = NullEmb
    /\ candidateMap = <<>>
    /\ rpcData = NoReply
    /\ vectorResponse = NoReply
    /\ textDataResponse = NoReply
    /\ rawCandidates = <<>>
    /\ res = NoResponse
    /\ calls = <<>>
    /\ stages = {}
    /\ store = NoStore
    /\ inflight = NoInflight
    /\ page = NoPage

\* line 95
Extract ==
    /\ pc = "nouns"
    /\ properNouns' = extractProperNouns(trimmedQuery)
    /\ stages' = {"extract"}
    /\ pc' = "extracted"
    /\ UNCHANGED <<openaiKey, supabaseCreds, cachedSupabase, created, store, inflight, page,
                   req, trimmedQuery, limit, embedding, candidateMap, rpcData,
                   vectorResponse, textDataResponse, rawCandidates, res, calls>>

NextNouns == Extract

SpecNouns == InitNouns /\ [][NextNouns]_vars

----------------------------------------------------------------------------
(* Two requests with the same query and limit in flight at once. Each runs
   the handler on locals of its own; the process shares the environment and
   the module-level client handle. The data store and the embedding service
   do not change: a call is answered the same whichever request makes it.
   A step resumes one request at the await it is suspended on and runs it to
   its next await. *)

\* what the unchanged services answer to each call
Stores ==
    [embeddings : {r \in EmbeddingReplies : r.kind = "reject" \/ Len(r.vector) > 0},
     hybrid : {r \in HybridReplies :
                  \/ r.kind = "error"
                  \/ r.kind = "rows" /\ Len(r.rows) = 1 /\ r.rows[1].id = 2},
     vector : {r \in VectorReplies :
                  \/ r.kind = "nodata"
                  \/ r.kind = "rows" /\ Len(r.rows) = 2
                        /\ r.rows[1].id = 1 /\ r.rows[2].id = 2},
     vfallback : {r \in VectorFallbackReplies : r.kind = "rows" /\ Len(r.rows) <= 1},
     text : {r \in ScanReplies :
                \/ r.kind \in {"error", "reject"}
                \/ r.kind = "rows" /\ Len(r.rows) = 2
                      /\ r.rows[1].id = 2 /\ r.rows[2].id = 3},
     pattern : {r \in ScanReplies :
                   r.kind = "rows" /\ Len(r.rows) <= 1
                      /\ \A i \in DOMAIN r.rows : r.rows[i].id = 2},
     plain : {r \in ScanReplies :
                 \/ r.kind = "reject"
                 \/ r.kind = "rows" /\ Len(r.rows) = 1 /\ r.rows[1].id = 3}]

\* the request both callers send
PairRequests ==
    {[method |-> "POST", query |-> Str(QJainArt \o <<" ">>), limit |-> lim] :
        lim \in {NullStr, Str(<<"1">>)}}

\* candidateMapOf reading the map of the first request
candidateMapShared(all, r) == all[1].candidateMap

\* line 207: the candidate map is a local of the querySupabase call
candidateMapOf(all, r) == all[r].candidateMap

\* lines 111-114
Fail(l) == [l EXCEPT !.res = ServerError, !.pc = "done"]

\* querySupabase returns cands; lines 104-110
Finish(l, cands) ==
    [l EXCEPT !.rawCandidates = cands,
              !.res = Ok(combineScores(cands, [query |-> l.trimmedQuery,
                                               properNouns |-> l.properNouns,
                                               limit |-> l.limit])),
              !.pc = "done"]

\* lines 97 and 204-216, or 204-208 and 304-308 without a query embedding
Enter(l, emb, client) ==
    IF ~client THEN Fail([l EXCEPT !.embedding = emb])
    ELSE [l EXCEPT !.embedding = emb,
                   !.pc = IF hasQueryEmbedding(emb) THEN "rpc" ELSE "text"]

\* lines 78-96 and 157-175
Arrive(l, request, key, client) ==
    IF request.method # "POST"
       THEN [l EXCEPT !.res = MethodNotAllowed, !.pc = "done"]
    ELSE IF ~QueryAccepted(request.query)
       THEN [l EXCEPT !.res = BadRequest, !.pc = "done"]
    ELSE LET started == [l EXCEPT !.trimmedQuery = trim(request.query.s),
                                  !.limit = EffectiveLimit(request.limit),
                                  !.properNouns =
                                      extractProperNouns(trim(request.query.s))]
         IN IF key THEN [started EXCEPT !.pc = "fetch"]
            ELSE Enter(started, NullEmb, client)

\* lines 348-353, or 379-389 and the handler's 104-110
AfterTextOf(l, map) ==
    IF Len(map) = 0 THEN [l EXCEPT !.candidateMap = map, !.pc = "plain"]
    ELSE Finish([l EXCEPT !.candidateMap = map], Candidates(map, l.embedding))

\* the request r resumed at the await it is suspended on, with the answer the
\* store gives to the call it awaits
Resume(all, r, st, request, key, client) ==
    LET l == all[r]
        map == candidateMapOf(all, r)
    IN CASE l.pc = "idle" -> Arrive(l, request, key, client)
         [] l.pc = "fetch" -> Enter(l, getQueryEmbedding(st.embeddings), client)
         [] l.pc = "rpc" ->
              IF HybridOutcome(st.hybrid) = "throw" THEN Fail(l)
              ELSE IF HybridOutcome(st.hybrid) = "return"
                 THEN Finish(l, TagRpc(st.hybrid.rows))
              ELSE [l EXCEPT !.pc = "vector"]
         [] l.pc = "vector" ->
              IF st.vector.kind = "reject" THEN Fail(l)
              ELSE LET merged == MergeVector(map, st.vector, l.embedding)
                   IN [l EXCEPT !.candidateMap = merged,
                                !.pc = IF Len(merged) = 0 THEN "vfallback" ELSE "text"]
         [] l.pc = "vfallback" ->
              IF st.vfallback.kind = "reject" THEN Fail(l)
              ELSE [l EXCEPT !.candidateMap =
                                 MergeVectorFallback(map, st.vfallback, l.embedding),
                             !.pc = "text"]
         [] l.pc = "text" ->
              IF st.text.kind = "reject" THEN Fail(l)
              ELSE IF st.text.kind = "error" THEN [l EXCEPT !.pc = "pattern"]
              ELSE AfterTextOf(l, MergeText(map, st.text))
         [] l.pc = "pattern" ->
              IF st.pattern.kind = "reject" THEN Fail(l)
              ELSE AfterTextOf(l, MergeText(map, st.pattern))
         [] l.pc = "plain" ->
              IF st.plain.kind = "reject" THEN Fail(l)
              ELSE LET merged == MergePlain(map, st.plain, l.embedding)
                   IN Finish([l EXCEPT !.candidateMap = merged],
                             Candidates(merged, l.embedding))

\* the steps in which the request calls getSupabaseClient
EntersQuerySupabase(l, key) == (l.pc = "idle" /\ ~key) \/ l.pc = "fetch"

InitPair ==
    /\ openaiKey \in BOOLEAN
    /\ supabaseCreds \in BOOLEAN
    /\ cachedSupabase = FALSE
    /\ created = 0
    /\ pc = "pair"
    /\ req \in PairRequests
    /\ trimmedQuery = <<>>
    /\ limit = 0
    /\ properNouns = <<>>
    /\ embedding = NullEmb
    /\ candidateMap = <<>>
    /\ rpcData = NoReply
    /\ vectorResponse = NoReply
    /\ textDataResponse = NoReply
    /\ rawCandidates = <<>>
    /\ res = NoResponse
    /\ calls = <<>>
    /\ stages = {}
    /\ store \in Stores
    /\ inflight = NoInflight
    /\ page = NoPage

\* one of the two requests runs from an await to the next
PairStep ==
    /\ pc = "pair"
    /\ \E r \in Requests :
        /\ inflight[r].pc # "done"
        /\ inflight' = [inflight EXCEPT
                            ![r] = Resume(inflight, r, store, req, openaiKey,
                                          getSupabaseClient)]
        /\ IF EntersQuerySupabase(inflight[r], openaiKey)
              THEN /\ cachedSupabase' = getSupabaseClient
                   /\ created' = IF createsClient THEN created + 1 ELSE created
           ELSE UNCHANGED <<cachedSupabase, created>>
    /\ UNCHANGED <<openaiKey, supabaseCreds, pc, req, trimmedQuery, limit,
                   properNouns, embedding, candidateMap, rpcData, vectorResponse,
                   textDataResponse, rawCandidates, res, calls, stages, store, page>>

NextPair == PairStep

SpecPair == InitPair /\ [][NextPair]_vars

----------------------------------------------------------------------------
(* Properties *)

CallNames == {calls[i].name : i \in DOMAIN calls}
DataCalls == {i \in DOMAIN calls : calls[i].name # "embeddings"}
HybridCalls == {i \in DOMAIN calls : calls[i].name = "smart_search_candidates"}
InUnit(x) == x >= 0 /\ x <= 1000

\* C1: on every path and for every reply of the data store, a 200 response
\* holds no more results than the request's effective limit.
ResultCountWithinLimit ==
    res.status = 200 => Len(res.results) * 1000 <= limit

\* C1 witness: the retriever returned more candidates than the limit admits
ResultCountWithinLimitWitness ==
    /\ res.status = 200
    /\ Len(rawCandidates) * 1000 > limit
    /\ Len(res.results) > 0

\* C2: for every row, whatever its signal fields hold (null, NaN, infinite,
\* negative, above 1), the five breakdown values and finalScore that
\* combineScores produces lie in [0, 1].
ScoresInUnitInterval ==
    \A i \in DOMAIN res.results :
        /\ InUnit(res.results[i].finalScore)
        /\ InUnit(res.results[i].breakdown.cosineSimilarity)
        /\ InUnit(res.results[i].breakdown.bm25Rank)
        /\ InUnit(res.results[i].breakdown.properNounBoost)
        /\ InUnit(res.results[i].breakdown.fieldMatchBonus)
        /\ InUnit(res.results[i].breakdown.engagementScore)

\* C2 witness: a scored row whose lexical rank is infinite and whose
\* engagement is far above 1
ScoresInUnitIntervalWitness ==
    /\ res.status = 200
    /\ Len(res.results) = 1
    /\ rawCandidates[1].bm25_rank = PosInf
    /\ rawCandidates[1].engagement_score = Num(1000000)
    /\ res.results[1].breakdown.engagementScore = 1000

BlankQuery(q) == q.k # "str" \/ \A i \in DOMAIN q.s : q.s[i] = " "
PipelineUntouched ==
    /\ stages = {}
    /\ calls = <<>>
    /\ properNouns = <<>>
    /\ rawCandidates = <<>>
    /\ res.results = <<>>

\* C3: a request that is not a POST is answered 405, a POST whose query is
\* missing, not a string or blank is answered 400, and in both cases nothing
\* of the pipeline runs: no extraction, no outbound call, no scoring.
InvalidInputStopsPipeline ==
    pc # "idle" =>
        /\ req.method # "POST" =>
              (res.status = 405 /\ pc = "done" /\ PipelineUntouched)
        /\ (req.method = "POST" /\ BlankQuery(req.query)) =>
              (res.status = 400 /\ pc = "done" /\ PipelineUntouched)

\* C3 witness: a POST with a query of spaces only was answered 400
InvalidInputStopsPipelineWitness ==
    /\ res.status = 400
    /\ req.query.k = "str"
    /\ Len(req.query.s) > 0

\* C4: the effective limit is an integer in (0, 50]; a limit above 50 gives
\* 50; an absent, non-numeric or non-positive limit gives 20.
LimitIsClampedInteger ==
    "extract" \in stages =>
        /\ limit > 0
        /\ limit <= 50000
        /\ limit % 1000 = 0
        /\ req.limit = Str(<<"1","0","0">>) => limit = 50000
        /\ req.limit \in {NullStr, Str(<<"a","b","c">>), Str(<<"0">>)} => limit = 20000

WithoutSource(row) == [row EXCEPT !.match_source = NullSrc]
HybridReturnedRows == rpcData.kind = "rows" /\ Len(rpcData.rows) > 0

\* C5: when the hybrid call succeeds with at least one row, the retriever
\* returns exactly those rows, in order, and no later strategy is invoked.
HybridShortCircuit ==
    HybridReturnedRows =>
        /\ pc = "done"
        /\ res.status = 200
        /\ Len(rawCandidates) = Len(rpcData.rows)
        /\ \A i \in DOMAIN rawCandidates :
              WithoutSource(rawCandidates[i]) = WithoutSource(rpcData.rows[i])
        /\ candidateMap = <<>>
        /\ CallNames \subseteq {"embeddings", "smart_search_candidates"}

\* C5 witness: the hybrid call returned two rows and the request was answered
HybridShortCircuitWitness ==
    /\ HybridReturnedRows
    /\ Len(rpcData.rows) > 1
    /\ res.status = 200
    /\ Len(res.results) > 1

HybridFailureFallsThrough ==
    \A h \in HybridCalls :
        calls[h].reply \in {"error", "empty"} =>
            /\ Len(calls) > h
            /\ calls[h + 1].name = "match_records"
            /\ res.status \in {0, 200, 500}
            /\ res.status = 500 => \E j \in DOMAIN calls : j > h /\ calls[j].reply = "reject"
            /\ pc \in {"text", "pattern", "plain"} \/ res.status = 200 =>
                  \E j \in DOMAIN calls : j > h + 1 /\ calls[j].name = "text_search"

\* C7 witness: the hybrid call returned an error and the request was
\* answered 200 with results
HybridFailureFallsThroughWitness ==
    /\ \E h \in HybridCalls : calls[h].reply = "error"
    /\ res.status = 200
    /\ Len(res.results) > 0

NoQueryEmbedding == embedding.k = "null" \/ Len(embedding.v) = 0
TextProducedRows ==
    \E i \in DOMAIN calls :
        calls[i].name \in {"text_search", "pattern_search"} /\ calls[i].reply = "rows"

\* C8: without a query embedding the retriever invokes no embedding-dependent
\* strategy, runs the full-text search once it has its client, runs the plain
\* scan exactly when the text search gave no rows, and every result has
\* cosineSimilarity 0.
NoEmbeddingTextOnly ==
    ("retrieve" \in stages /\ NoQueryEmbedding) =>
        /\ CallNames \cap {"smart_search_candidates", "match_records", "vector_fallback"} = {}
        /\ cachedSupabase => "text_search" \in CallNames
        /\ res.status = 200 =>
              /\ \A i \in DOMAIN res.results : res.results[i].breakdown.cosineSimilarity = 0
              /\ "plain_scan" \in CallNames <=> ~TextProducedRows

\* C8 witness: the embedding service was configured and gave no vector, and a
\* returned candidate has a stored embedding
NoEmbeddingTextOnlyWitness ==
    /\ openaiKey
    /\ NoQueryEmbedding
    /\ res.status = 200
    /\ \E i \in DOMAIN rawCandidates : rawCandidates[i].embedding.k = "arr"

\* C9: a failure of the embedding service or of a retrieval strategy, as an
\* error result or as a failed call, never surfaces: the request is answered
\* 200.
FailuresNeverSurface ==
    (/\ pc = "done"
     /\ cachedSupabase
     /\ \E i \in DOMAIN calls :
           calls[i].reply \in {"reject", "error", "notok", "badjson", "novector"})
        => res.status = 200

\* C10: when every strategy invoked came back without rows, the retriever
\* returns the empty candidate set and the response is 200 with no results.
ExhaustionGivesEmptyOk ==
    (/\ pc = "done"
     /\ DataCalls # {}
     /\ \A i \in DataCalls : calls[i].reply \in {"error", "nodata", "empty"})
        => (rawCandidates = <<>> /\ res.status = 200 /\ res.results = <<>>)

\* C10 witness: with a query embedding, all of the cascade came back empty
ExhaustionGivesEmptyOkWitness ==
    /\ pc = "done"
    /\ "smart_search_candidates" \in CallNames
    /\ "plain_scan" \in CallNames
    /\ \A i \in DataCalls : calls[i].reply \in {"error", "nodata", "empty"}
    /\ res.status = 200

EmbeddingCalls == {i \in DOMAIN calls : calls[i].name = "embeddings"}
EmbeddingFailures == {"reject", "notok", "badjson", "novector"}

\* C11: getQueryEmbedding never raises to its caller. Without a credential
\* it issues no request and returns null; on a rejected fetch, a non-success
\* status, a malformed body or a missing or empty vector it returns null; on
\* success it returns the vector the service sent, unchanged. The retriever
\* is entered in every case, and a 500 is never due to the embedding call.
EmbeddingNeverRaises ==
    "embed" \in stages =>
        /\ ~openaiKey => (EmbeddingCalls = {} /\ embedding = NullEmb)
        /\ openaiKey => Cardinality(EmbeddingCalls) = 1
        /\ \A i \in EmbeddingCalls :
              /\ calls[i].reply = "pending" => (pc = "fetch" /\ res.status = 0)
              /\ calls[i].reply # "pending" => "retrieve" \in stages
              /\ calls[i].reply \in EmbeddingFailures => embedding = NullEmb
              /\ (calls[i].reply = "vector" /\ calls[i].vector = <<>>) =>
                    embedding = NullEmb
              /\ (calls[i].reply = "vector" /\ calls[i].vector # <<>>) =>
                    embedding = Arr(calls[i].vector)
        /\ res.status = 500 =>
              \/ ~supabaseCreds
              \/ \E j \in DataCalls : calls[j].reply = "reject"

\* C11 witness: the fetch was rejected and the request was still answered
\* 200 with results
EmbeddingNeverRaisesWitness ==
    /\ \E i \in EmbeddingCalls : calls[i].reply = "reject"
    /\ res.status = 200
    /\ Len(res.results) > 0

\* the fields of a candidate that a merge fills
TextFields == {"title_name", "summary", "authors", "pdf_url"}
ScoreFields == {"cosine_similarity", "bm25_rank", "field_match_bonus",
                "proper_noun_boost", "engagement_score"}
Defined(row, f) == row[f].k # "null"
WithId(rows, id) == {i \in DOMAIN rows : rows[i].id = id}
Ids(rows) == {rows[i].id : i \in DOMAIN rows}
MergedDone ==
    /\ pc = "done"
    /\ res.status = 200
    /\ vectorResponse.kind = "rows"
    /\ textDataResponse.kind = "rows"
SharedIds == Ids(vectorResponse.rows) \cap Ids(textDataResponse.rows)

\* C12: when the vector RPC and the text search both return a row of the
\* same identifier, the candidate set holds exactly one candidate of that
\* identifier, its match_source is "vector+text", and a field that one of the
\* two rows defines is defined in the candidate.
VectorTextMerged ==
    MergedDone =>
        \A id \in SharedIds :
            /\ Cardinality(WithId(rawCandidates, id)) = 1
            /\ \A c \in WithId(rawCandidates, id) :
                  /\ rawCandidates[c].match_source = Src("vector+text")
                  /\ \A v \in WithId(vectorResponse.rows, id),
                        t \in WithId(textDataResponse.rows, id),
                        f \in TextFields \cup ScoreFields :
                         (Defined(vectorResponse.rows[v], f)
                            # Defined(textDataResponse.rows[t], f))
                            => Defined(rawCandidates[c], f)

NoRepeatedId(rows) ==
    \A i, j \in DOMAIN rows : rows[i].id = rows[j].id => i = j

\* C13: within one request no two candidates the retriever returns, and no
\* two entries of the results, share a record identifier, on every path
\* (the hybrid short-circuit included) and for every row list the data store
\* returns (lists that repeat an identifier included).
UniqueIdentifiers ==
    (pc = "done" /\ res.status = 200) =>
        (NoRepeatedId(rawCandidates) /\ NoRepeatedId(res.results))

\* the query tokens the scorer works with, line 394
ScoreTokens == Distinct(tokenize(Str(trimmedQuery)))
Scored == pc = "done" /\ res.status = 200 /\ Len(rawCandidates) = 1 /\ Len(res.results) = 1

\* C14 as stated: a sub-score the candidate carries (cosine similarity,
\* lexical rank, proper-noun boost, field-match bonus) is reported normalised
\* and is not recomputed from the text, a lexical rank of 0 included.
PrecomputedReported ==
    Scored =>
        LET row == rawCandidates[1]
            out == res.results[1].breakdown
        IN /\ Defined(row, "cosine_similarity") =>
                 out.cosineSimilarity = normaliseCosine(row.cosine_similarity)
           /\ Defined(row, "bm25_rank") =>
                 Num(out.bm25Rank) = normaliseBm25(row.bm25_rank)
           /\ Defined(row, "proper_noun_boost") =>
                 out.properNounBoost = clamp01(row.proper_noun_boost)
           /\ Defined(row, "field_match_bonus") =>
                 out.fieldMatchBonus = clamp01(row.field_match_bonus)

\* C14 amended: the same, except that the lexical rank is reported from the
\* candidate only when its normalised value is above 0; a rank that
\* normalises to 0 or to no number is recomputed from the candidate's text.
PrecomputedReportedUnlessRankZero ==
    Scored =>
        LET row == rawCandidates[1]
            out == res.results[1].breakdown
        IN /\ Defined(row, "cosine_similarity") =>
                 out.cosineSimilarity = normaliseCosine(row.cosine_similarity)
           /\ GtZero(normaliseBm25(row.bm25_rank)) =>
                 Num(out.bm25Rank) = normaliseBm25(row.bm25_rank)
           /\ ~GtZero(normaliseBm25(row.bm25_rank)) =>
                 out.bm25Rank = computeBm25Score(row, ScoreTokens)
           /\ Defined(row, "proper_noun_boost") =>
                 out.properNounBoost = clamp01(row.proper_noun_boost)
           /\ Defined(row, "field_match_bonus") =>
                 out.fieldMatchBonus = clamp01(row.field_match_bonus)

\* C14 witness: a row whose field-match bonus of 0.3 is reported although
\* its text gives another value
PrecomputedReportedWitness ==
    /\ Scored
    /\ rawCandidates[1].field_match_bonus = Num(300)
    /\ res.results[1].breakdown.fieldMatchBonus = 300
    /\ computeFieldMatchBonus(rawCandidates[1], ScoreTokens) # 300

NoProperNouns == "extract" \in stages /\ properNouns = <<>>

\* C15 as stated: when the query gives no proper noun, every result has
\* properNounBoost 0, a hybrid row that carries a proper_noun_boost included.
NoNounsNoBoost ==
    (NoProperNouns /\ res.status = 200) =>
        \A i \in DOMAIN res.results : res.results[i].breakdown.properNounBoost = 0

\* C15 amended: when the query gives no proper noun, a result has
\* properNounBoost 0 unless its candidate carries a proper_noun_boost, and
\* then it has that value clamped to [0, 1].
NoNounsNoBoostUnlessPrecomputed ==
    (NoProperNouns /\ res.status = 200) =>
        \A i \in DOMAIN res.results :
            \E c \in WithId(rawCandidates, res.results[i].id) :
                res.results[i].breakdown.properNounBoost =
                    IF Defined(rawCandidates[c], "proper_noun_boost")
                       THEN clamp01(rawCandidates[c].proper_noun_boost)
                    ELSE 0

\* C15 witness: no proper noun in the query; one result has the boost its
\* hybrid row carried, another, whose row carried none, has 0
NoNounsNoBoostWitness ==
    /\ NoProperNouns
    /\ res.status = 200
    /\ \E i \in DOMAIN res.results : res.results[i].breakdown.properNounBoost = 1000
    /\ \E i \in DOMAIN res.results : res.results[i].breakdown.properNounBoost = 0

\* the finalScore the scorer gives a candidate
FinalScoreOf(row) ==
    ScoreRow(row, ScoreTokens,
             [i \in DOMAIN properNouns |-> toLowerCase(properNouns[i])]).finalScore
\* where a candidate stands in the scorer's input
InputPlace(id) == CHOOSE i \in DOMAIN rawCandidates : rawCandidates[i].id = id
LeftOut == {i \in DOMAIN rawCandidates : rawCandidates[i].id \notin Ids(res.results)}

\* C16: the results are in non-increasing order of finalScore and are the top
\* of the ranking: as many as the limit admits, no candidate left out scores
\* strictly more than one included, and candidates of equal finalScore keep
\* their input order.
RankedTopK ==
    (pc = "done" /\ res.status = 200 /\ NoRepeatedId(rawCandidates)) =>
        /\ Len(res.results) = Min(Len(rawCandidates), limit \div 1000)
        /\ \A i \in DOMAIN res.results :
              /\ res.results[i].id \in Ids(rawCandidates)
              /\ res.results[i].finalScore =
                    FinalScoreOf(rawCandidates[InputPlace(res.results[i].id)])
        /\ \A i, j \in DOMAIN res.results :
              i < j =>
                 /\ res.results[i].finalScore >= res.results[j].finalScore
                 /\ res.results[i].finalScore = res.results[j].finalScore =>
                       InputPlace(res.results[i].id) < InputPlace(res.results[j].id)
        /\ \A c \in LeftOut, i \in DOMAIN res.results :
              /\ FinalScoreOf(rawCandidates[c]) <= res.results[i].finalScore
              /\ FinalScoreOf(rawCandidates[c]) = res.results[i].finalScore =>
                    InputPlace(res.results[i].id) < c

\* C16 witness: four candidates of which the limit admits three; the best
\* came last, the other two results tie and a candidate of their finalScore
\* is left out
RankedTopKWitness ==
    /\ pc = "done"
    /\ Len(rawCandidates) = 4
    /\ Len(res.results) = 3
    /\ res.results[1].id = 4
    /\ res.results[2].finalScore = res.results[3].finalScore
    /\ \E c \in LeftOut : FinalScoreOf(rawCandidates[c]) = res.results[3].finalScore

BothDone == pc = "pair" /\ \A r \in Requests : inflight[r].pc = "done"
\* the two requests are both suspended inside the retriever
BothRetrieving ==
    \A r \in Requests : inflight[r].pc \in {"vector", "vfallback", "text", "pattern", "plain"}

\* C17: two requests with the same query and limit, against a data store and
\* an embedding service that do not change, get the same response from the
\* same candidates, however their awaits interleave.
SameRequestSameResults ==
    BothDone =>
        /\ inflight[1].res = inflight[2].res
        /\ inflight[1].rawCandidates = inflight[2].rawCandidates
        /\ inflight[1].properNouns = inflight[2].properNouns

\* C17 witness: both requests went through the vector and the text merge and
\* were answered 200 with two results
SameRequestSameResultsWitness ==
    /\ BothDone
    /\ inflight[1].res.status = 200
    /\ Len(inflight[1].res.results) > 1
    /\ \E i \in DOMAIN inflight[2].rawCandidates :
          inflight[2].rawCandidates[i].match_source = Src("vector+text")

\* the stop words the extractor is to leave out
LeftOutWords ==
    { <<"I">>, <<"W","e">>, <<"U","s">>, <<"Y","o","u">>, <<"H","e">>,
      <<"S","h","e">>, <<"T","h","e","y">>, <<"I","t">>, <<"A">>, <<"A","n">>,
      <<"T","h","e">>, <<"A","n","d">>, <<"O","r">>, <<"B","u","t">> }

\* the words of a text whose words are set apart by single spaces
RECURSIVE WordsOf(_, _, _)
WordsOf(text, word, acc) ==
    IF text = <<>> THEN (IF word = <<>> THEN acc ELSE Append(acc, word))
    ELSE IF Head(text) = " "
       THEN WordsOf(Tail(text), <<>>, IF word = <<>> THEN acc ELSE Append(acc, word))
    ELSE WordsOf(Tail(text), Append(word, Head(text)), acc)

Capitalised(word) == word # <<>> /\ word[1] \in UpperSet

\* a run without the hyphens and apostrophes it ends in
RECURSIVE Bare(_)
Bare(run) ==
    IF run # <<>> /\ run[Len(run)] \in {"-", "'"} THEN Bare(SubSeq(run, 1, Len(run) - 1))
    ELSE run

\* the maximal runs of capitalised words, in order
RECURSIVE RunsOf(_, _, _)
RunsOf(words, run, acc) ==
    IF words = <<>> THEN (IF run = <<>> THEN acc ELSE Append(acc, Bare(run)))
    ELSE IF Capitalised(Head(words))
       THEN RunsOf(Tail(words),
                   IF run = <<>> THEN Head(words) ELSE run \o <<" ">> \o Head(words),
                   acc)
    ELSE RunsOf(Tail(words), <<>>, IF run = <<>> THEN acc ELSE Append(acc, Bare(run)))

\* the runs that are no stop word, each lowercase form once, the first kept
RECURSIVE FirstOfEach(_, _)
FirstOfEach(runs, acc) ==
    IF runs = <<>> THEN acc
    ELSE IF Head(runs) \in LeftOutWords
            \/ \E i \in DOMAIN acc : toLowerCase(acc[i]) = toLowerCase(Head(runs))
       THEN FirstOfEach(Tail(runs), acc)
    ELSE FirstOfEach(Tail(runs), Append(acc, Head(runs)))

\* text holds part at the place p
OccursAt(text, part, p) ==
    p + Len(part) - 1 <= Len(text) /\ SubSeq(text, p, p + Len(part) - 1) = part

\* C18: extractProperNouns returns the distinct maximal capitalised runs of
\* the query in the order of their first occurrence: no two entries are equal
\* when lowercased, every entry stands in the query in the casing returned,
\* no entry is a stop word, the result is empty when no word of the query is
\* capitalised, and the entries are the first occurrences of the runs.
NounsAreDistinctRuns ==
    pc = "extracted" =>
        /\ \A i, j \in DOMAIN properNouns :
              toLowerCase(properNouns[i]) = toLowerCase(properNouns[j]) => i = j
        /\ \A i \in DOMAIN properNouns :
              /\ properNouns[i] \notin LeftOutWords
              /\ Capitalised(properNouns[i])
              /\ \E p \in DOMAIN trimmedQuery : OccursAt(trimmedQuery, properNouns[i], p)
        /\ (\A p \in DOMAIN trimmedQuery : trimmedQuery[p] \notin UpperSet) =>
              properNouns = <<>>
        /\ properNouns = FirstOfEach(RunsOf(WordsOf(trimmedQuery, <<>>, <<>>), <<>>, <<>>),
                                     <<>>)

\* C18 witness: "Ab ab AB" gives "Ab" alone, the casing of the first
\* occurrence
NounsAreDistinctRunsWitness ==
    /\ pc = "extracted"
    /\ trimmedQuery = <<"A","b"," ","a","b"," ","A","B">>
    /\ properNouns = << <<"A","b">> >>

\* the requests that have called getSupabaseClient
Entered == {r \in Requests : inflight[r].pc \notin {"idle", "fetch"}}

\* C19: with data-store credentials, createClient is called at most once,
\* whatever the order in which two requests that both arrived before a client
\* existed reach getSupabaseClient; the handle is set from the first call on
\* and a later call builds no other.
ClientCreatedOnce ==
    pc = "pair" =>
        /\ created <= 1
        /\ cachedSupabase <=> created = 1
        /\ (supabaseCreds /\ Entered # {}) => created = 1
        /\ ~supabaseCreds => created = 0

\* C19 witness: both requests were suspended on the embedding request, then
\* both called getSupabaseClient, and one client was built
ClientCreatedOnceWitness ==
    /\ pc = "pair"
    /\ openaiKey
    /\ Entered = Requests
    /\ \A r \in Requests : inflight[r].res.status # 500
    /\ created = 1

RowsOf(reply) == IF reply.kind = "rows" THEN reply.rows ELSE <<>>
\* the rows merged into the candidate map, in the order they were processed
MergedRows == RowsOf(vectorResponse) \o RowsOf(textDataResponse)
\* the request was answered from the vector and text merges alone
MergedOnly ==
    /\ pc = "done"
    /\ res.status = 200
    /\ ~HybridReturnedRows
    /\ CallNames \cap {"vector_fallback", "plain_scan"} = {}
Defining(id, f) ==
    {i \in DOMAIN MergedRows : MergedRows[i].id = id /\ Defined(MergedRows[i], f)}
Latest(S) == CHOOSE i \in S : \A j \in S : j <= i

\* C20: merging rows of one identifier keeps, for every field of the
\* candidate, a value whenever a merged row defines it, and the value of the
\* row processed last among those that define it.
MergeKeepsLatestDefined ==
    MergedOnly =>
        \A c \in DOMAIN candidateMap, f \in TextFields \cup ScoreFields :
            Defining(candidateMap[c].id, f) # {} =>
                candidateMap[c][f] = MergedRows[Latest(Defining(candidateMap[c].id, f))][f]

----------------------------------------------------------------------------
(* Provenance *)

\* the tags a strategy writes into match_source
StrategyTags == {"rpc", "hybrid", "vector", "vector-fallback", "text", "fallback"}

RECURSIVE JoinTags(_)
JoinTags(tags) ==
    IF Len(tags) = 1 THEN tags[1]
    ELSE JoinTags(SubSeq(tags, 1, Len(tags) - 1)) \o "+" \o tags[Len(tags)]

\* the provenance strings whose tags, joined by "+", are pairwise distinct
DistinctProvenances ==
    {JoinTags(tags) :
        tags \in {t \in UNION {[1..n -> StrategyTags] : n \in 1..3} :
                     \A i, j \in DOMAIN t : t[i] = t[j] => i = j}}

\* C21: in the match_source of every candidate, in the candidate map and in
\* what the retriever returns, the tags joined by "+" are pairwise distinct,
\* for every row list a strategy returns, a list that repeats an identifier
\* included.
ProvenanceTagsDistinct ==
    /\ \A i \in DOMAIN candidateMap :
          candidateMap[i].match_source.s \in DistinctProvenances
    /\ \A i \in DOMAIN rawCandidates :
          rawCandidates[i].match_source.s \in DistinctProvenances

----------------------------------------------------------------------------
(* Cosine similarity of the rows of match_records *)

\* item.cosine_similarity ?? item.similarity
Precomputed(item) == Coalesce(item.cosine_similarity, item.similarity)

\* the row of match_records processed last among those of an identifier
LastVectorRow(id) == vectorResponse.rows[Latest(WithId(vectorResponse.rows, id))]

\* C22: a row of match_records that carries a precomputed similarity keeps
\* it as the candidate's cosine similarity; the similarity is computed from
\* the row's stored embedding only when the row carries none.
PrecomputedSimilarityKept ==
    vectorResponse.kind = "rows" =>
        \A c \in DOMAIN candidateMap :
            candidateMap[c].id \in Ids(vectorResponse.rows) =>
                LET item == LastVectorRow(candidateMap[c].id)
                IN /\ ~IsNullish(Precomputed(item)) =>
                         candidateMap[c].cosine_similarity = Precomputed(item)
                   /\ (IsNullish(Precomputed(item))
                         /\ IsArray(sanitizeEmbedding(item.embedding))) =>
                         candidateMap[c].cosine_similarity =
                             Num(computeCosineSimilarity(
                                     sanitizeEmbedding(item.embedding), embedding))

----------------------------------------------------------------------------
(* The plain scan *)

PlainCalls == {i \in DOMAIN calls : calls[i].name = "plain_scan"}
\* the data-store calls before the plain scan
PriorCalls == DataCalls \ PlainCalls
\* no strategy before the plain scan gave a row
PriorGaveNothing ==
    \A i \in PriorCalls : calls[i].reply \in {"error", "nodata", "empty"}
FallbackCandidates ==
    {i \in DOMAIN rawCandidates : rawCandidates[i].match_source = Src("fallback")}

\* C23: the plain scan is invoked if and only if the candidate map is empty
\* after all prior strategies of a request the hybrid call did not
\* short-circuit; it asks for max(limit, 10) rows; and when a returned
\* candidate has match_source "fallback", every returned candidate has
\* exactly that.
PlainScanOnlyWhenEmpty ==
    /\ pc = "plain" => candidateMap = <<>>
    /\ PlainCalls # {} =>
          /\ Cardinality(PlainCalls) = 1
          /\ ~HybridReturnedRows
          /\ PriorGaveNothing
          /\ \A i \in PlainCalls :
                calls[i].count = (IF limit > Milli(10) THEN limit ELSE Milli(10))
    /\ (pc = "done" /\ res.status = 200 /\ ~HybridReturnedRows /\ PriorGaveNothing)
          => PlainCalls # {}
    /\ (pc = "done" /\ res.status = 200 /\ FallbackCandidates # {})
          => /\ PlainCalls # {}
             /\ FallbackCandidates = DOMAIN rawCandidates

\* C23 witness: with a query embedding and a limit of 1, the hybrid call, the
\* vector call, the vector fallback and the text search gave nothing, the
\* plain scan asked for 10 rows and its two rows are the candidates
PlainScanOnlyWhenEmptyWitness ==
    /\ pc = "done"
    /\ res.status = 200
    /\ limit = Milli(1)
    /\ {"smart_search_candidates", "match_records", "vector_fallback", "text_search"}
          \subseteq CallNames
    /\ \E i \in PlainCalls : calls[i].count = Milli(10)
    /\ Len(rawCandidates) = 2
    /\ FallbackCandidates = {1, 2}

----------------------------------------------------------------------------
(* The text search and the pattern-match query *)

TextCalls == {i \in DOMAIN calls : calls[i].name = "text_search"}
PatternCalls == {i \in DOMAIN calls : calls[i].name = "pattern_search"}
\* the request is over, it had a data-store client and entered the
\* retriever, and the hybrid call did not short-circuit it
RetrievedPastHybrid ==
    /\ pc = "done"
    /\ "retrieve" \in stages
    /\ supabaseCreds
    /\ ~HybridReturnedRows
\* the answers of a call that failed
Failures == {"reject", "error", "nodata"}

TextSearchOnce ==
    /\ Cardinality(TextCalls) <= 1
    /\ Cardinality(PatternCalls) <= 1
    /\ RetrievedPastHybrid => Cardinality(TextCalls) = 1
    /\ \A p \in PatternCalls : p - 1 \in TextCalls /\ calls[p - 1].reply = "error"
    /\ \A p \in PatternCalls : calls[p].reply \in Failures => res.status # 500

PatternFailureAddsNothing ==
    (pc = "pattern" /\ calls'[Len(calls)].reply \in Failures)
        => candidateMap' = candidateMap

\* C24: in every request the hybrid call does not short-circuit, the
\* full-text search is invoked exactly once, also when the vector strategies
\* gave candidates; the pattern-match query is invoked only right after the
\* full-text search reported an error; and a failure of the pattern-match
\* query adds no candidate and does not turn the response into an error.
TextSearchOncePatternOnError ==
    []TextSearchOnce /\ [][PatternFailureAddsNothing]_vars

----------------------------------------------------------------------------
(* The backfill of cosine similarities *)

\* C25: with a query embedding present and no short-circuit by the hybrid
\* call, every candidate the retriever returns that has a stored embedding
\* has a cosine similarity, whichever strategy or merge order produced it.
EmbeddedCandidatesHaveCosine ==
    (pc = "done" /\ res.status = 200 /\ hasQueryEmbedding(embedding)
        /\ ~HybridReturnedRows) =>
        \A i \in DOMAIN rawCandidates :
            IsArray(rawCandidates[i].embedding) =>
                ~IsNullish(rawCandidates[i].cosine_similarity)

\* C25 witness: the vector call gave a row without an embedding, the text
\* search gave a row of another identifier with one; the text merge leaves
\* that candidate's cosine similarity null and the returned candidate has it
EmbeddedCandidatesHaveCosineWitness ==
    /\ pc = "done"
    /\ res.status = 200
    /\ hasQueryEmbedding(embedding)
    /\ vectorResponse.kind = "rows"
    /\ \E i \in DOMAIN candidateMap :
          /\ candidateMap[i].match_source = Src("text")
          /\ IsArray(candidateMap[i].embedding)
          /\ IsNullish(candidateMap[i].cosine_similarity)
          /\ rawCandidates[i].cosine_similarity = Num(1000)
    /\ \E i \in DOMAIN candidateMap : candidateMap[i].match_source = Src("vector")

----------------------------------------------------------------------------
(* The order of the outbound calls *)

\* the place of a call in the order the claim gives
CallRank(name) ==
    CASE name = "embeddings" -> 1
      [] name = "smart_search_candidates" -> 2
      [] name = "match_records" -> 3
      [] name = "vector_fallback" -> 4
      [] name = "text_search" -> 5
      [] name = "pattern_search" -> 6
      [] name = "plain_scan" -> 7

\* C26: within one request the outbound calls are sequential and ordered:
\* at most one embedding call, answered before any data-store call is
\* issued; the data-store calls in the order hybrid, vector, vector
\* fallback, text, pattern, plain; never two calls in flight; no call issued
\* twice.
CallsSequentialOrdered ==
    /\ \A i, j \in DOMAIN calls :
          i < j => CallRank(calls[i].name) < CallRank(calls[j].name)
    /\ \A i \in DOMAIN calls : calls[i].reply = "pending" => i = Len(calls)
    /\ Cardinality({i \in DOMAIN calls : calls[i].reply = "pending"}) <= 1
    /\ pc \in {"idle", "done"} => \A i \in DOMAIN calls : calls[i].reply # "pending"

\* C26 witness: a request that made all seven calls, one after the other
CallsSequentialOrderedWitness ==
    /\ pc = "done"
    /\ res.status = 200
    /\ Len(calls) = 7
    /\ Len(res.results) > 0

----------------------------------------------------------------------------
(* The lexical score computed from the text *)

\* what a field adds to the weighted sum and to the total weight when its
\* weight is counted only if a query token hits it
FieldCountedOnHit(text, weight, tokens) ==
    LET fieldTokens == IF Falsy(text) THEN <<>> ELSE tokenize(text)
        hits == Cardinality({i \in DOMAIN tokens : InSeq(tokens[i], fieldTokens)})
        lengthPenalty == Log2(Len(fieldTokens) + 1)
    IN IF hits = 0 THEN [weight |-> 0, score |-> 0]
       ELSE [weight |-> weight,
             score |-> (weight * ((((hits * 1000) \div Len(tokens)) * 1000)
                                    \div lengthPenalty)) \div 1000]

\* clamp01((weightedSum / totalWeight) * 1.5) over the fields that were hit,
\* 0 when none was
LexicalCountedOnHit(row, tokens) ==
    LET t == FieldCountedOnHit(row.title_name, 1800, tokens)
        u == FieldCountedOnHit(row.summary, 1200, tokens)
        a == FieldCountedOnHit(row.authors, 800, tokens)
        totalWeight == t.weight + u.weight + a.weight
    IN IF Len(tokens) = 0 \/ totalWeight = 0 THEN 0
       ELSE clamp01(Num(((((t.score + u.score + a.score) * 1000) \div totalWeight) * 3)
                           \div 2))

\* C27: in the lexical score computed from the text, a field's weight (title
\* 1.8, summary 1.2, authors 0.8) enters the total weight only when a query
\* token hits the field; a non-empty field without a hit adds nothing to the
\* weighted sum or to the total weight; the score is 0 when no field
\* contributed.
WeightCountedOnlyOnHit ==
    (Scored /\ ~GtZero(normaliseBm25(rawCandidates[1].bm25_rank))) =>
        res.results[1].breakdown.bm25Rank =
            LexicalCountedOnHit(rawCandidates[1], ScoreTokens)

----------------------------------------------------------------------------
(* One response per request *)

Statuses == {405, 400, 200, 500}
InPipeline == pc \notin {"idle", "done"}

ResponseMatchesOutcome ==
    /\ pc = "done" <=> res.status \in Statuses
    /\ pc # "done" <=> res.status = 0
    /\ (pc = "done" /\ "retrieve" \in stages /\ ~supabaseCreds) => res = ServerError
    /\ (\E i \in DOMAIN calls : calls[i].reply = "reject"
          /\ calls[i].name # "embeddings") => res = ServerError

\* a response, once sent, stays the request's response
NoSecondResponse == res.status # 0 => (res' = res \/ pc' = "idle")

\* C28: every request, provided each outbound call it issues eventually
\* returns or fails, eventually receives exactly one response, with status
\* 405, 400, 200 or 500; an exception that escapes the pipeline (missing
\* data-store credentials included) becomes the generic 500 response, and no
\* second response is sent.
EveryRequestAnsweredOnce ==
    /\ []ResponseMatchesOutcome
    /\ [][NoSecondResponse]_vars
    /\ InPipeline ~> pc = "done"

\* C28 witness: the data-store credentials are missing, the embedding call
\* was made and answered, and the request has the generic 500 response
EveryRequestAnsweredOnceWitness ==
    /\ pc = "done"
    /\ ~supabaseCreds
    /\ \E i \in EmbeddingCalls : calls[i].reply = "vector"
    /\ res = ServerError

----------------------------------------------------------------------------
(* Sub-scores of the candidates that went through the candidate map *)

LowerProperNouns == [i \in DOMAIN properNouns |-> toLowerCase(properNouns[i])]
\* the request was answered 200 without the hybrid short-circuit
AnsweredFromMap == pc = "done" /\ res.status = 200 /\ ~HybridReturnedRows

\* C29: on every path but the hybrid short-circuit, each candidate the
\* retriever returns has a null bm25_rank, field_match_bonus and
\* proper_noun_boost, also when a strategy's row supplied one, and the
\* bm25Rank, fieldMatchBonus and properNounBoost of its result are the ones
\* computed from its text.
MapCandidatesScoredLocally ==
    AnsweredFromMap =>
        /\ \A i \in DOMAIN rawCandidates :
              /\ rawCandidates[i].bm25_rank = NullNum
              /\ rawCandidates[i].field_match_bonus = NullNum
              /\ rawCandidates[i].proper_noun_boost = NullNum
        /\ \A j \in DOMAIN res.results :
              \E i \in WithId(rawCandidates, res.results[j].id) :
                 LET out == res.results[j].breakdown
                 IN /\ out.bm25Rank = computeBm25Score(rawCandidates[i], ScoreTokens)
                    /\ out.fieldMatchBonus =
                          computeFieldMatchBonus(rawCandidates[i], ScoreTokens)
                    /\ out.properNounBoost =
                          computeProperNounBoost(rawCandidates[i], LowerProperNouns)

\* C29 witness: match_records returned a row with a lexical rank, a
\* field-match bonus and a proper-noun boost, and the request was answered
\* with a result for it
MapCandidatesScoredLocallyWitness ==
    /\ AnsweredFromMap
    /\ vectorResponse.kind = "rows"
    /\ \E v \in DOMAIN vectorResponse.rows :
          /\ Defined(vectorResponse.rows[v], "bm25_rank")
          /\ Defined(vectorResponse.rows[v], "field_match_bonus")
          /\ Defined(vectorResponse.rows[v], "proper_noun_boost")
          /\ \E j \in DOMAIN res.results :
                res.results[j].id = vectorResponse.rows[v].id

----------------------------------------------------------------------------
(* The search page, src/pages/smart-search.tsx: the form, the effect on the *)
(* URL's q parameter, and the searches it has issued and not yet heard      *)
(* back from. The results of a search are written <<q>>, "what the endpoint *)
(* returned for q", so two different queries have different results.        *)

MaxSearches == 3
TypedTexts == {<<>>, <<"a">>, <<"b">>, <<"a", " ">>}
UrlQueries == {<<>>, <<" ">>, <<"a">>, <<"b">>}
SearchOutcomes == {"ok", "error"}
ResultsFor(q) == <<q>>
FetchError == Str(<<"e">>)

(* performSearch up to its await: an empty trimmed input clears the page,   *)
(* any other issues a search for the trimmed input.                         *)
performSearch(p, input) ==
    LET trimmed == trim(input)
        search == [id |-> p.issued + 1, q |-> trimmed]
    IN  IF trimmed = <<>>
        THEN [p EXCEPT !.isLoading = FALSE, !.results = <<>>, !.error = NullStr,
                       !.hasSearched = FALSE, !.latest = NoSearch]
        ELSE [p EXCEPT !.hasSearched = TRUE, !.isLoading = TRUE, !.error = NullStr,
                       !.pending = @ \cup {search}, !.issued = @ + 1,
                       !.latest = [id |-> search.id, q |-> trimmed,
                                   outcome |-> "pending"]]

(* The route after router.replace: the effect is due when q has changed.    *)
Replaced(p, q) == [p EXCEPT !.urlQ = q, !.effectDue = (q # p.urlQ)]

(* The input's onChange. *)
Types ==
    /\ pc = "page"
    /\ ~page.effectDue
    /\ \E text \in TypedTexts :
           /\ text # page.query
           /\ page' = IF text = <<>>
                      THEN [page EXCEPT !.query = text, !.error = NullStr,
                                        !.results = <<>>, !.hasSearched = FALSE,
                                        !.latest = NoSearch]
                      ELSE [page EXCEPT !.query = text]
    /\ UNCHANGED <<openaiKey, supabaseCreds, cachedSupabase, pc, req, trimmedQuery,
                   limit, properNouns, embedding, candidateMap, rpcData,
                   vectorResponse, textDataResponse, rawCandidates, res, calls,
                   stages, created, store, inflight>>

(* handleSubmit; the submit button is disabled while isLoading. *)
handleSubmit ==
    /\ pc = "page"
    /\ ~page.effectDue
    /\ ~page.isLoading
    /\ LET trimmed == trim(page.query)
       IN  IF trimmed = <<>>
           THEN page' = Replaced([page EXCEPT !.results = <<>>, !.error = NullStr,
                                              !.hasSearched = FALSE,
                                              !.latest = NoSearch], <<>>)
           ELSE /\ page.issued < MaxSearches
                /\ page' = performSearch(
                               [Replaced(page, trimmed) EXCEPT
                                    !.lastExecutedQueryRef = trimmed], trimmed)
    /\ UNCHANGED <<openaiKey, supabaseCreds, cachedSupabase, pc, req, trimmedQuery,
                   limit, properNouns, embedding, candidateMap, rpcData,
                   vectorResponse, textDataResponse, rawCandidates, res, calls,
                   stages, created, store, inflight>>

(* The URL's q parameter changes from outside the form: a link, the back    *)
(* button, an edited address.                                               *)
Navigates ==
    /\ pc = "page"
    /\ ~page.effectDue
    /\ \E q \in UrlQueries :
           /\ q # page.urlQ
           /\ page' = Replaced(page, q)
    /\ UNCHANGED <<openaiKey, supabaseCreds, cachedSupabase, pc, req, trimmedQuery,
                   limit, properNouns, embedding, candidateMap, rpcData,
                   vectorResponse, textDataResponse, rawCandidates, res, calls,
                   stages, created, store, inflight>>

(* The effect on router.query.q. *)
QueryEffect ==
    /\ pc = "page"
    /\ page.effectDue
    /\ LET qParam == page.urlQ
           ran == [page EXCEPT !.effectDue = FALSE]
       IN  IF qParam = <<>>
           THEN page' = [ran EXCEPT !.query = <<>>, !.results = <<>>,
                                    !.hasSearched = FALSE, !.error = NullStr,
                                    !.lastExecutedQueryRef = <<>>,
                                    !.latest = NoSearch]
           ELSE IF page.lastExecutedQueryRef = qParam
           THEN page' = [ran EXCEPT !.query = qParam]
           ELSE /\ trim(qParam) # <<>> => page.issued < MaxSearches
                /\ page' = performSearch(
                               [ran EXCEPT !.query = qParam,
                                           !.lastExecutedQueryRef = qParam], qParam)
    /\ UNCHANGED <<openaiKey, supabaseCreds, cachedSupabase, pc, req, trimmedQuery,
                   limit, properNouns, embedding, candidateMap, rpcData,
                   vectorResponse, textDataResponse, rawCandidates, res, calls,
                   stages, created, store, inflight>>

(* performSearch after its await: smartSearch has resolved, for any of the  *)
(* searches in flight.                                                      *)
SearchCompletes ==
    /\ pc = "page"
    /\ ~page.effectDue
    /\ \E search \in page.pending, outcome \in SearchOutcomes :
           LET shown == IF outcome = "error"
                        THEN [page EXCEPT !.error = FetchError, !.results = <<>>]
                        ELSE [page EXCEPT !.results = ResultsFor(search.q)]
           IN  page' = [shown EXCEPT
                            !.isLoading = FALSE,
                            !.pending = @ \ {search},
                            !.latest = IF search.id = page.latest.id
                                       THEN [@ EXCEPT !.outcome = outcome]
                                       ELSE @]
    /\ UNCHANGED <<openaiKey, supabaseCreds, cachedSupabase, pc, req, trimmedQuery,
                   limit, properNouns, embedding, candidateMap, rpcData,
                   vectorResponse, textDataResponse, rawCandidates, res, calls,
                   stages, created, store, inflight>>

(* The page as mounted: the router is ready and the effect is due on        *)
(* whatever q the URL carries.                                              *)
InitPage ==
    /\ openaiKey = TRUE
    /\ supabaseCreds = TRUE
    /\ cachedSupabase = FALSE
    /\ pc = "page"
    /\ req = NoRequest
    /\ trimmedQuery = <<>>
    /\ limit = 0
    /\ properNouns = <<>>
    /\ embedding = NullEmb
    /\ candidateMap = <<>>
    /\ rpcData = NoReply
    /\ vectorResponse = NoReply
    /\ textDataResponse = NoReply
    /\ rawCandidates = <<>>
    /\ res = NoResponse
    /\ calls = <<>>
    /\ stages = {}
    /\ created = 0
    /\ store = NoStore
    /\ inflight = NoInflight
    /\ \E q \in UrlQueries : page = [NoPage EXCEPT !.urlQ = q, !.effectDue = TRUE]

NextPage ==
    \/ Types
    \/ handleSubmit
    \/ Navigates
    \/ QueryEffect
    \/ SearchCompletes

SpecPage == InitPage /\ [][NextPage]_vars

(* C30: while a search the page has issued is in flight the loading flag is *)
(* true; once every issued search has completed, in whatever order, the     *)
(* loading flag is false and the results and the error shown are those of   *)
(* the most recently issued query.                                          *)
LoadingWhileInFlight == page.pending # {} => page.isLoading
ShownWhenSettled ==
    (page.pending = {} /\ page.latest.id # 0 /\ ~page.effectDue) =>
        /\ ~page.isLoading
        /\ page.results = IF page.latest.outcome = "ok"
                          THEN ResultsFor(page.latest.q) ELSE <<>>
        /\ page.error = IF page.latest.outcome = "error"
                        THEN FetchError ELSE NullStr
PageShowsLatestSearch == LoadingWhileInFlight /\ ShownWhenSettled

====
